---------------------------- MODULE Spec2Model ----------------------------
(***************************************************************************)
(* support-IQ: knowledge-base usage statistics, tier promotion and tiered  *)
(* search.                                                                 *)
(*                                                                         *)
(* The database is modelled by its committed content: the knowledge_base   *)
(* rows (kb), the promotion_history rows in insertion order (history), the *)
(* tickets and the number of resolution rows per ticket; settings is the   *)
(* configuration object read at start-up.                                  *)
(*                                                                         *)
(* Spec      : requests are served one after the other; one action is one  *)
(*             whole request handler of app/api/routes.py.                 *)
(* SpecConc  : requests of several sessions interleave at the granularity  *)
(*             of the SQL statements they issue (PostgreSQL default        *)
(*             isolation READ COMMITTED, row locks held until commit).     *)
(*                                                                         *)
(* SpecPromo : the promotion handlers of Spec and the candidates query     *)
(*             over entries with usage on record.                          *)
(* SpecUsage : record_usage called on freshly inserted entries; the value  *)
(*             of avg_feedback_score is carried in binary64 as well.       *)
(* SpecSearch: the ranker and the cascade search over a fixed catalog; the *)
(*             embedding and text-rank oracles are the scores a query      *)
(*             gives to each row.                                          *)
(* SpecUrgency: UrgencyCalculator.calculate applied to texts over a small  *)
(*             vocabulary; the sentiment pipeline is an oracle.            *)
(*                                                                         *)
(* Float columns are modelled by exact rationals <<num, den>> in lowest    *)
(* terms; None is modelled by 0 where the code tests truthiness.           *)
(***************************************************************************)
EXTENDS Integers, Sequences, FiniteSets, TLC

VARIABLES kb, history, tickets, resolutions, resp, sess, served, settings

vars == <<kb, history, tickets, resolutions, resp, sess, served, settings>>

-----------------------------------------------------------------------------
(* Bounds of the model *)

NumEntries == 2
NumForced == 1
MaxResolutions == 2
MaxHistory == 4
MaxRequests == 3

(* Program constants *)

l3_to_l2_threshold == 10
l2_to_l1_threshold == 25
min_feedback_score == 4
HistoryDefaultLimit == 50
top_k_results == 5

\* semantic_weight 0.7 and keyword_weight 0.3, in tenths
semantic_weight == 7
keyword_weight == 3

\* The Settings object as built from the defaults of app/config.py.
DefaultSettings ==
  [top_k_results |-> top_k_results,
   semantic_weight |-> semantic_weight,
   keyword_weight |-> keyword_weight]

-----------------------------------------------------------------------------
(* Identifiers and inputs *)

KbIds == 1..NumEntries
MissingKb == NumEntries + 1
TicketIds == {1}
ConcTicketIds == {1, 2}
MissingTicket == Cardinality(ConcTicketIds) + 1
\* Entries the forced promotions of the model are applied to.
ForcedIds == 1..NumForced
None == 0

KnowledgeTier == {"L1", "L2", "L3"}

TierNum(t) == CASE t = "L1" -> 1 [] t = "L2" -> 2 [] t = "L3" -> 3

FeedbackScores == {3}

-----------------------------------------------------------------------------
(* Exact rationals for the Float columns *)

RECURSIVE GCD(_, _)
GCD(a, b) == IF b = 0 THEN a ELSE GCD(b, a % b)

Rat(n, d) == LET g == GCD(n, d) IN IF n = 0 THEN <<0, 1>> ELSE <<n \div g, d \div g>>

RatGE(x, n) == x[1] >= n * x[2]

\* The running average divided by the count as read, c, instead of m.
RunningAvgOldCount(x, c, v, m) == Rat(x[1] * c + v * x[2], x[2] * c)

\* (x * c + v) / m for a rational x and integers c, v, m > 0
RunningAvg(x, c, v, m) == Rat(x[1] * c + v * x[2], x[2] * m)

-----------------------------------------------------------------------------
(* KnowledgeBase rows *)

Entry(t, u, s, a, act) ==
  [tier |-> t, usage_count |-> u, success_rate |-> s,
   avg_feedback_score |-> a, is_active |-> act]

\* Usage statistics an entry reaches through resolve_ticket alone: nine
\* usages rated 4, twenty-four usages rated 4.  An L3 entry starts below
\* the L3 -> L2 threshold: above it the sweep that follows every resolution
\* would already have examined it.
InitEntries ==
  {Entry("L3", 9, <<1, 1>>, <<4, 1>>, TRUE),
   Entry("L2", 24, <<1, 1>>, <<4, 1>>, TRUE)}

\* is_active is written by no handler; the last entry is an L3 entry one
\* usage below the threshold that the administrator may have deactivated.
InitKb ==
  {K \in [KbIds -> InitEntries \cup {[e EXCEPT !.is_active = FALSE] : e \in InitEntries}] :
     /\ \A id \in KbIds : id < NumEntries => K[id].is_active
     /\ K[NumEntries].tier = "L3" /\ K[NumEntries].usage_count = l3_to_l2_threshold - 1}

-----------------------------------------------------------------------------
(* KnowledgeBaseService.record_usage *)

\* record_usage computing the two averages but leaving the count as read.
record_usage_values_no_increment(entry, feedback_score, was_successful) ==
  LET new_usage_count == entry.usage_count + 1
  IN [usage_count |-> entry.usage_count,
      success_rate |->
        RunningAvg(entry.success_rate, entry.usage_count,
                   IF was_successful THEN 1 ELSE 0, new_usage_count),
      avg_feedback_score |->
        IF feedback_score # None
        THEN RunningAvg(entry.avg_feedback_score, entry.usage_count,
                        feedback_score, new_usage_count)
        ELSE entry.avg_feedback_score]

\* record_usage counting only the usages that carry a feedback score.
record_usage_values_rated_only(entry, feedback_score, was_successful) ==
  LET new_usage_count == entry.usage_count + 1
  IN IF feedback_score = None
     THEN [usage_count |-> entry.usage_count,
           success_rate |-> entry.success_rate,
           avg_feedback_score |-> entry.avg_feedback_score]
     ELSE [usage_count |-> new_usage_count,
           success_rate |->
             RunningAvg(entry.success_rate, entry.usage_count,
                        IF was_successful THEN 1 ELSE 0, new_usage_count),
           avg_feedback_score |->
             RunningAvg(entry.avg_feedback_score, entry.usage_count,
                        feedback_score, new_usage_count)]

\* The three values computed from the row that was read.
record_usage_values(entry, feedback_score, was_successful) ==
  LET new_usage_count == entry.usage_count + 1
      new_success_rate ==
        RunningAvg(entry.success_rate, entry.usage_count,
                   IF was_successful THEN 1 ELSE 0, new_usage_count)
      new_feedback_avg ==
        IF feedback_score # None
        THEN RunningAvg(entry.avg_feedback_score, entry.usage_count,
                        feedback_score, new_usage_count)
        ELSE entry.avg_feedback_score
  IN [usage_count |-> new_usage_count,
      success_rate |-> new_success_rate,
      avg_feedback_score |-> new_feedback_avg]

\* UPDATE knowledge_base SET usage_count, success_rate, avg_feedback_score
SetUsage(row, v) ==
  [row EXCEPT !.usage_count = v.usage_count,
              !.success_rate = v.success_rate,
              !.avg_feedback_score = v.avg_feedback_score]

\* record_usage inserting a row with the column defaults for an unknown id.
record_usage_upsert(K, kb_id, feedback_score, was_successful) ==
  LET row == IF kb_id \in DOMAIN K THEN K[kb_id]
             ELSE Entry("L3", 0, <<0, 1>>, <<0, 1>>, TRUE)
  IN [id \in DOMAIN K \cup {kb_id} |->
        IF id = kb_id
        THEN SetUsage(row, record_usage_values(row, feedback_score, was_successful))
        ELSE K[id]]

\* The whole call inside one transaction with nothing interleaved.
record_usage(K, kb_id, feedback_score, was_successful) ==
  IF kb_id \notin DOMAIN K
  THEN K
  ELSE [K EXCEPT ![kb_id] =
          SetUsage(@, record_usage_values(K[kb_id], feedback_score, was_successful))]

-----------------------------------------------------------------------------
(* AutoPromotionService *)

\* A promotion_history row.  promoted_at is the server's now() of the
\* inserting transaction, modelled by a logical clock.
PromotionHistory(id, from_tier, to_tier, reason, entry, now) ==
  [knowledge_id |-> id, from_tier |-> from_tier, to_tier |-> to_tier,
   reason |-> reason,
   usage_count_at_promotion |-> entry.usage_count,
   avg_feedback_at_promotion |-> entry.avg_feedback_score,
   promoted_at |-> now]

AutoReason(entry) ==
  [text |-> "Auto-promoted", usage_count |-> entry.usage_count,
   avg_feedback |-> entry.avg_feedback_score]

ManualReason == [text |-> "Manual promotion"]

IsAuto(r) == r.reason.text = "Auto-promoted"

\* The eligibility query asking for a usage_count above the threshold.
IsEligibleAboveThreshold(entry, from_tier, usage_threshold) ==
  /\ entry.tier = from_tier
  /\ entry.is_active
  /\ entry.usage_count > usage_threshold
  /\ RatGE(entry.avg_feedback_score, min_feedback_score)

\* The WHERE clause of the eligibility query.
IsEligible(entry, from_tier, usage_threshold) ==
  /\ entry.tier = from_tier
  /\ entry.is_active
  /\ entry.usage_count >= usage_threshold
  /\ RatGE(entry.avg_feedback_score, min_feedback_score)

eligible_entries(K, from_tier, usage_threshold) ==
  {id \in DOMAIN K : IsEligible(K[id], from_tier, usage_threshold)}

\* A duplicate check that compares the two tier columns the wrong way round.
existing_promotion_swapped(H, id, from_tier, to_tier) ==
  {i \in 1..Len(H) : /\ H[i].knowledge_id = id
                     /\ H[i].from_tier = to_tier
                     /\ H[i].to_tier = from_tier}

\* The rows the duplicate check selects (positions in the history table).
existing_promotion(H, id, from_tier, to_tier) ==
  {i \in 1..Len(H) : /\ H[i].knowledge_id = id
                     /\ H[i].from_tier = from_tier
                     /\ H[i].to_tier = to_tier}

\* The item appended to the returned promotion list.
PromotionItem(id, from_tier, to_tier, entry) ==
  [id |-> id, from_tier |-> from_tier, to_tier |-> to_tier,
   usage_count |-> entry.usage_count,
   avg_feedback |-> entry.avg_feedback_score]

\* State of one sweep: the rows as this transaction sees them, the history
\* rows added to the session but not flushed, the list to return, and
\* whether an exception was raised.
SweepState(K) == [kb |-> K, pending |-> <<>>, promotions |-> <<>>, ok |-> TRUE]

\* _promote_entry writing the target tier into both tier columns of the
\* history row.
promote_entry_wrong_from(st, id, entry, from_tier, to_tier, now) ==
  [st EXCEPT
     !.kb[id].tier = to_tier,
     !.pending = Append(@, PromotionHistory(id, to_tier, to_tier,
                                            AutoReason(entry), entry, now)),
     !.promotions = Append(@, PromotionItem(id, from_tier, to_tier, entry))]

\* _promote_entry followed by promotions.append: entry is the ORM object.
promote_entry(st, id, entry, from_tier, to_tier, now) ==
  [st EXCEPT
     !.kb[id].tier = to_tier,
     !.pending = Append(@, PromotionHistory(id, from_tier, to_tier,
                                            AutoReason(entry), entry, now)),
     !.promotions = Append(@, PromotionItem(id, from_tier, to_tier, entry))]

\* The loop of _check_tier_promotions over the selected rows, in the order
\* ord in which the query returned them.  scalar_one_or_none raises
\* MultipleResultsFound when the duplicate check selects two rows or more.
RECURSIVE check_loop(_, _, _, _, _, _)
check_loop(st, H, ord, from_tier, to_tier, now) ==
  IF ord = <<>> \/ ~st.ok
  THEN st
  ELSE LET id == Head(ord)
           n == Cardinality(existing_promotion(H, id, from_tier, to_tier))
       IN IF n > 1
          THEN [st EXCEPT !.ok = FALSE]
          ELSE IF n = 1
          THEN check_loop(st, H, Tail(ord), from_tier, to_tier, now)
          ELSE check_loop(promote_entry(st, id, st.kb[id], from_tier, to_tier, now),
                          H, Tail(ord), from_tier, to_tier, now)

\* All orders in which an unordered SELECT may return the rows of S.
RECURSIVE Orderings(_)
Orderings(S) ==
  IF S = {} THEN {<<>>}
  ELSE UNION {{<<x>> \o t : t \in Orderings(S \ {x})} : x \in S}

\* check_and_promote: the outcomes of one sweep run alone on (K, H).
check_and_promote(K, H) ==
  LET now == Len(H)
      pass1(o1) == check_loop(SweepState(K), H, o1, "L3", "L2", now)
      pass2(s1, o2) == check_loop(s1, H, o2, "L2", "L1", now)
  IN UNION {
       LET s1 == pass1(o1)
       IN IF ~s1.ok THEN {s1}
          ELSE {pass2(s1, o2) :
                  o2 \in Orderings(eligible_entries(s1.kb, "L2", l2_to_l1_threshold))}
       : o1 \in Orderings(eligible_entries(K, "L3", l3_to_l2_threshold))}

\* force_promote refusing to move an entry to a tier that is not more
\* accessible than its own.
force_promote_row_validated(entry, to_tier) ==
  IF TierNum(to_tier) < TierNum(entry.tier) THEN [entry EXCEPT !.tier = to_tier] ELSE entry

\* force_promote starting the usage count of the moved entry afresh.
force_promote_row_reset_usage(entry, to_tier) ==
  [entry EXCEPT !.tier = to_tier, !.usage_count = 0]

\* force_promote on an existing entry: the new row and the history row.
force_promote_row(entry, to_tier) == [entry EXCEPT !.tier = to_tier]

force_promote_history(kb_id, entry, to_tier, reason, now) ==
  PromotionHistory(kb_id, entry.tier, to_tier, reason, entry, now)

\* get_promotion_history: every list the query may return.  Rows are
\* ordered by promoted_at descending; rows with equal promoted_at come in
\* any order; kb_id is tested for truthiness before it filters.
RECURSIVE DescOrders(_, _)
DescOrders(H, M) ==
  IF M = {} THEN {<<>>}
  ELSE UNION {{<<H[x]>> \o t : t \in DescOrders(H, M \ {x})} :
                x \in {y \in M : \A z \in M : H[z].promoted_at <= H[y].promoted_at}}

Take(s, n) == SubSeq(s, 1, IF n < Len(s) THEN n ELSE Len(s))

\* get_promotion_history dropping the kb_id filter.
get_promotion_history_unfiltered(H, kb_id, limit) ==
  {Take(s, limit) : s \in DescOrders(H, 1..Len(H))}

get_promotion_history(H, kb_id, limit) ==
  LET M == {i \in 1..Len(H) : kb_id = None \/ H[i].knowledge_id = kb_id}
  IN {Take(s, limit) : s \in DescOrders(H, M)}

-----------------------------------------------------------------------------
(* Responses *)

Response(op, status, body) == [op |-> op, status |-> status, body |-> body]

\* Sessions of the interleaved specification; all idle under Spec.
Sessions == {1, 2}

\* A session between requests: no statement issued, nothing written, an
\* empty ORM identity map.
IdleSession ==
  [pc |-> "idle", op |-> "none", ticket_id |-> None, kb_id |-> None,
   feedback_score |-> None, entry |-> <<>>,
   wkb |-> <<>>, wticket |-> None, pass |-> 0, todo |-> <<>>,
   pending |-> <<>>, promotions |-> <<>>, cache |-> <<>>, now |-> 0]

\* Bookkeeping of the model: per entry, the feedback_score arguments of the
\* record_usage calls whose transaction committed, and the requests begun.
NoneServed == [calls |-> [id \in KbIds |-> <<>>], requests |-> 0]

-----------------------------------------------------------------------------
(* Requests served one at a time *)

Init ==
  /\ kb \in InitKb
  /\ history = <<>>
  /\ tickets = [t \in TicketIds |-> "open"]
  /\ resolutions = [t \in TicketIds |-> 0]
  /\ resp = Response("none", 0, <<>>)
  /\ sess = [s \in Sessions |-> IdleSession]
  /\ served = NoneServed
  /\ settings = DefaultSettings

RECURSIVE SumOver(_, _)
SumOver(f, S) ==
  IF S = {} THEN 0
  ELSE LET x == CHOOSE y \in S : TRUE IN f[x] + SumOver(f, S \ {x})

TotalResolutions == SumOver(resolutions, TicketIds)

\* resolve_ticket refusing a ticket that is resolved already.
ResolveTicketOnlyOnce(ticket_id, knowledge_id, feedback_score) ==
  IF ticket_id \notin DOMAIN tickets
  THEN /\ resp' = Response("resolve_ticket", 404, <<>>)
       /\ UNCHANGED <<kb, history, tickets, resolutions, sess, served, settings>>
  ELSE IF tickets[ticket_id] = "resolved"
  THEN /\ resp' = Response("resolve_ticket", 409, <<>>)
       /\ UNCHANGED <<kb, history, tickets, resolutions, sess, served, settings>>
  ELSE /\ TotalResolutions < MaxResolutions
       /\ tickets' = [tickets EXCEPT ![ticket_id] = "resolved"]
       /\ resolutions' = [resolutions EXCEPT ![ticket_id] = @ + 1]
       /\ LET K1 == IF knowledge_id # None
                    THEN record_usage(kb, knowledge_id, feedback_score, TRUE)
                    ELSE kb
          IN \E st \in check_and_promote(K1, history) :
               IF st.ok
               THEN /\ kb' = st.kb
                    /\ history' = history \o st.pending
                    /\ resp' = Response("resolve_ticket", 200, st.promotions)
               ELSE /\ kb' = K1
                    /\ history' = history
                    /\ resp' = Response("resolve_ticket", 500, <<>>)
       /\ UNCHANGED <<sess, served, settings>>

\* POST /tickets/{ticket_id}/resolve
ResolveTicket(ticket_id, knowledge_id, feedback_score) ==
  IF ticket_id \notin DOMAIN tickets
  THEN /\ resp' = Response("resolve_ticket", 404, <<>>)
       /\ UNCHANGED <<kb, history, tickets, resolutions, sess, served, settings>>
  ELSE /\ TotalResolutions < MaxResolutions
       /\ tickets' = [tickets EXCEPT ![ticket_id] = "resolved"]
       /\ resolutions' = [resolutions EXCEPT ![ticket_id] = @ + 1]
       /\ LET K1 == IF knowledge_id # None
                    THEN record_usage(kb, knowledge_id, feedback_score, TRUE)
                    ELSE kb
          IN \E st \in check_and_promote(K1, history) :
               IF st.ok
               THEN /\ kb' = st.kb
                    /\ history' = history \o st.pending
                    /\ resp' = Response("resolve_ticket", 200, st.promotions)
               ELSE /\ kb' = K1
                    /\ history' = history
                    /\ resp' = Response("resolve_ticket", 500, <<>>)
       /\ UNCHANGED <<sess, served, settings>>

\* POST /promotions/run
RunAutoPromotion ==
  /\ \E st \in check_and_promote(kb, history) :
       IF st.ok
       THEN /\ kb' = st.kb
            /\ history' = history \o st.pending
            /\ resp' = Response("run_auto_promotion", 200, st.promotions)
       ELSE /\ UNCHANGED <<kb, history, settings>>
            /\ resp' = Response("run_auto_promotion", 500, <<>>)
  /\ UNCHANGED <<tickets, resolutions, sess, served, settings>>

\* manual_promote whose service writes the history row before it looks at
\* the result of its SELECT: an unknown kb_id still leaves a row behind.
ManualPromoteWriteFirst(kb_id, to_tier) ==
  IF kb_id \notin DOMAIN kb
  THEN /\ Len(history) < MaxHistory
       /\ history' = Append(history,
                       PromotionHistory(kb_id, to_tier, to_tier, ManualReason,
                                        [usage_count |-> None, avg_feedback_score |-> None],
                                        Len(history)))
       /\ resp' = Response("manual_promote", 404, <<>>)
       /\ UNCHANGED <<kb, tickets, resolutions, sess, served, settings>>
  ELSE /\ Len(history) < MaxHistory
       /\ kb' = [kb EXCEPT ![kb_id] = force_promote_row(@, to_tier)]
       /\ history' = Append(history,
                       force_promote_history(kb_id, kb[kb_id], to_tier,
                                             ManualReason, Len(history)))
       /\ resp' = Response("manual_promote", 200,
                    <<PromotionItem(kb_id, kb[kb_id].tier, to_tier, kb[kb_id])>>)
       /\ UNCHANGED <<tickets, resolutions, sess, served, settings>>

\* manual_promote that rewrites the row of an earlier promotion with the
\* same (entry, from_tier, to_tier) instead of inserting a new one.
ManualPromoteUpsert(kb_id, to_tier) ==
  IF kb_id \notin DOMAIN kb
  THEN /\ resp' = Response("manual_promote", 404, <<>>)
       /\ UNCHANGED <<kb, history, tickets, resolutions, sess, served, settings>>
  ELSE /\ Len(history) < MaxHistory
       /\ kb' = [kb EXCEPT ![kb_id] = force_promote_row(@, to_tier)]
       /\ LET row == force_promote_history(kb_id, kb[kb_id], to_tier,
                                           ManualReason, Len(history))
              old == existing_promotion(history, kb_id, kb[kb_id].tier, to_tier)
          IN history' = IF old = {} THEN Append(history, row)
                        ELSE [i \in 1..Len(history) |->
                                IF i \in old THEN row ELSE history[i]]
       /\ resp' = Response("manual_promote", 200,
                    <<PromotionItem(kb_id, kb[kb_id].tier, to_tier, kb[kb_id])>>)
       /\ UNCHANGED <<tickets, resolutions, sess, served, settings>>

\* POST /knowledge/{kb_id}/promote
ManualPromote(kb_id, to_tier) ==
  IF kb_id \notin DOMAIN kb
  THEN /\ resp' = Response("manual_promote", 404, <<>>)
       /\ UNCHANGED <<kb, history, tickets, resolutions, sess, served, settings>>
  ELSE /\ Len(history) < MaxHistory
       /\ kb' = [kb EXCEPT ![kb_id] = force_promote_row(@, to_tier)]
       /\ history' = Append(history,
                       force_promote_history(kb_id, kb[kb_id], to_tier,
                                             ManualReason, Len(history)))
       /\ resp' = Response("manual_promote", 200,
                    <<PromotionItem(kb_id, kb[kb_id].tier, to_tier, kb[kb_id])>>)
       /\ UNCHANGED <<tickets, resolutions, sess, served, settings>>

\* GET /promotions/history
GetPromotionHistory(kb_id, limit) ==
  /\ \E records \in get_promotion_history(history, kb_id, limit) :
       resp' = Response("get_promotion_history", 200, records)
  /\ UNCHANGED <<kb, history, tickets, resolutions, sess, served, settings>>

Next ==
  \/ \E t \in TicketIds \cup {MissingTicket},
        k \in KbIds \cup {MissingKb, None},
        f \in FeedbackScores \cup {None} : ResolveTicket(t, k, f)
  \/ RunAutoPromotion
  \/ \E k \in ForcedIds \cup {MissingKb}, t \in KnowledgeTier : ManualPromote(k, t)
  \/ \E k \in KbIds \cup {None}, l \in {HistoryDefaultLimit} : GetPromotionHistory(k, l)

Spec == Init /\ [][Next]_vars

-----------------------------------------------------------------------------
(* Requests of several sessions interleaved statement by statement.        *)
(* Every statement reads the committed rows and the rows its own           *)
(* transaction wrote; an UPDATE waits while another transaction holds the  *)
(* row and then sets its columns on the committed row; the history rows    *)
(* added to a session are inserted when it commits (autoflush is off).     *)

ConcFeedbackScores == {5}

\* An L3 entry used nine times and rated 4, and an L3 entry used twenty-four
\* times and rated 3, 4, 4, ... (sum 95), which was never eligible.
ConcKb0 ==
  [id \in KbIds |->
     IF id = 1 THEN Entry("L3", 9, <<1, 1>>, <<4, 1>>, TRUE)
               ELSE Entry("L3", 24, <<1, 1>>, <<95, 24>>, TRUE)]

InitConc ==
  /\ kb = ConcKb0
  /\ history = <<>>
  /\ tickets = [t \in ConcTicketIds |-> "open"]
  /\ resolutions = [t \in ConcTicketIds |-> 0]
  /\ resp = Response("none", 0, <<>>)
  /\ sess = [s \in Sessions |-> IdleSession]
  /\ served = NoneServed
  /\ settings = DefaultSettings

\* The knowledge_base rows a statement of session s sees.
View(s) ==
  [id \in KbIds |-> IF id \in DOMAIN sess[s].wkb THEN sess[s].wkb[id] ELSE kb[id]]

Locked(id, s) == \E o \in Sessions \ {s} : id \in DOMAIN sess[o].wkb

TicketLocked(t, s) == \E o \in Sessions \ {s} : sess[o].wticket = t

\* Rows returned by a SELECT enter the identity map; an object already in
\* it keeps the attributes it has.
Load(cache, ids, rows) ==
  [id \in DOMAIN cache \cup ids |-> IF id \in DOMAIN cache THEN cache[id] ELSE rows[id]]

Put(f, k, v) == [x \in DOMAIN f \cup {k} |-> IF x = k THEN v ELSE f[x]]

PassFrom(p) == IF p = 1 THEN "L3" ELSE "L2"
PassTo(p) == IF p = 1 THEN "L2" ELSE "L1"
PassThreshold(p) == IF p = 1 THEN l3_to_l2_threshold ELSE l2_to_l1_threshold

\* The eligibility query of pass p issued by session record x; an empty
\* result moves on to the next pass, and after the second pass to commit.
RECURSIVE SelectPass(_, _, _)
SelectPass(s, x, p) ==
  IF p > 2
  THEN {[x EXCEPT !.pc = "commit", !.pass = 0, !.todo = <<>>]}
  ELSE LET rows == [id \in KbIds |-> IF id \in DOMAIN x.wkb THEN x.wkb[id] ELSE kb[id]]
           ids == eligible_entries(rows, PassFrom(p), PassThreshold(p))
       IN IF ids = {}
          THEN SelectPass(s, x, p + 1)
          ELSE {[x EXCEPT !.pc = "sweep_check", !.pass = p, !.todo = ord,
                          !.cache = Load(x.cache, ids, rows)] : ord \in Orderings(ids)}

\* After an entry of the loop is done: the next entry or the next pass.
Advance(s, x) ==
  IF Len(x.todo) > 1
  THEN {[x EXCEPT !.pc = "sweep_check", !.todo = Tail(x.todo)]}
  ELSE SelectPass(s, [x EXCEPT !.todo = <<>>], x.pass + 1)

\* resolve_ticket: SELECT the ticket.
BeginResolve(s, ticket_id, knowledge_id, feedback_score) ==
  /\ sess[s].pc = "idle"
  /\ served.requests < MaxRequests
  /\ served' = [served EXCEPT !.requests = @ + 1]
  /\ IF ticket_id \notin DOMAIN tickets
     THEN /\ resp' = Response("resolve_ticket", 404, <<>>)
          /\ UNCHANGED sess
     ELSE /\ sess' = [sess EXCEPT ![s] =
                 [IdleSession EXCEPT !.pc = "res_update", !.op = "resolve_ticket",
                                     !.ticket_id = ticket_id, !.kb_id = knowledge_id,
                                     !.feedback_score = feedback_score]]
          /\ UNCHANGED resp
  /\ UNCHANGED <<kb, history, tickets, resolutions, settings>>

\* resolve_ticket: UPDATE tickets SET status (the Resolution row is pending).
ResUpdateTicket(s) ==
  /\ sess[s].pc = "res_update"
  /\ ~TicketLocked(sess[s].ticket_id, s)
  /\ sess' = [sess EXCEPT ![s].wticket = sess[s].ticket_id,
                          ![s].pc = IF sess[s].kb_id # None THEN "ru_select" ELSE "commit1"]
  /\ UNCHANGED <<kb, history, tickets, resolutions, resp, served, settings>>

\* record_usage: SELECT the entry.
RuSelect(s) ==
  /\ sess[s].pc = "ru_select"
  /\ LET x == sess[s]
     IN IF x.kb_id \notin DOMAIN kb
        THEN sess' = [sess EXCEPT ![s].pc = "commit1"]
        ELSE sess' = [sess EXCEPT ![s].pc = "ru_update",
                                  ![s].entry = View(s)[x.kb_id],
                                  ![s].cache = Load(x.cache, {x.kb_id}, View(s))]
  /\ UNCHANGED <<kb, history, tickets, resolutions, resp, served, settings>>

\* record_usage: UPDATE the entry with the values computed from the row read.
RuUpdate(s) ==
  /\ sess[s].pc = "ru_update"
  /\ ~Locked(sess[s].kb_id, s)
  /\ LET x == sess[s]
         v == record_usage_values(x.entry, x.feedback_score, TRUE)
     IN sess' = [sess EXCEPT ![s].pc = "commit1",
                             ![s].wkb = Put(x.wkb, x.kb_id, SetUsage(View(s)[x.kb_id], v)),
                             ![s].cache = Put(x.cache, x.kb_id, SetUsage(x.cache[x.kb_id], v))]
  /\ UNCHANGED <<kb, history, tickets, resolutions, resp, served, settings>>

\* resolve_ticket: session.commit(), then the first query of the sweep.
Commit1(s) ==
  /\ sess[s].pc = "commit1"
  /\ LET x == sess[s]
     IN /\ kb' = [id \in KbIds |-> IF id \in DOMAIN x.wkb THEN x.wkb[id] ELSE kb[id]]
        /\ tickets' = [tickets EXCEPT ![x.ticket_id] = "resolved"]
        /\ resolutions' = [resolutions EXCEPT ![x.ticket_id] = @ + 1]
        /\ served' = IF x.entry # <<>>
                     THEN [served EXCEPT !.calls[x.kb_id] = Append(@, x.feedback_score)]
                     ELSE served
        /\ sess' = [sess EXCEPT ![s] =
                      [x EXCEPT !.pc = "sweep_select", !.wkb = <<>>, !.wticket = None,
                                !.entry = <<>>]]
  /\ UNCHANGED <<history, resp, settings>>

\* check_and_promote of resolve_ticket: the eligibility query of pass 1.
SweepSelect(s) ==
  /\ sess[s].pc = "sweep_select"
  /\ \E x \in SelectPass(s, [sess[s] EXCEPT !.now = Len(history)], 1) :
       sess' = [sess EXCEPT ![s] = x]
  /\ UNCHANGED <<kb, history, tickets, resolutions, resp, served, settings>>

\* run_auto_promotion: the eligibility query of pass 1.
BeginSweep(s) ==
  /\ sess[s].pc = "idle"
  /\ served.requests < MaxRequests
  /\ served' = [served EXCEPT !.requests = @ + 1]
  /\ \E x \in SelectPass(s, [IdleSession EXCEPT !.op = "run_auto_promotion",
                                                !.now = Len(history)], 1) :
       sess' = [sess EXCEPT ![s] = x]
  /\ UNCHANGED <<kb, history, tickets, resolutions, resp, settings>>

\* _check_tier_promotions: the duplicate check for the next selected entry.
\* An exception ends the request: the transaction is rolled back.
SweepCheck(s) ==
  /\ sess[s].pc = "sweep_check"
  /\ LET x == sess[s]
         id == Head(x.todo)
         n == Cardinality(existing_promotion(history, id, PassFrom(x.pass), PassTo(x.pass)))
     IN IF n > 1
        THEN /\ sess' = [sess EXCEPT ![s] = IdleSession]
             /\ resp' = Response(x.op, 500, <<>>)
        ELSE IF n = 1
        THEN /\ \E y \in Advance(s, x) : sess' = [sess EXCEPT ![s] = y]
             /\ UNCHANGED resp
        ELSE /\ sess' = [sess EXCEPT ![s].pc = "sweep_update"]
             /\ UNCHANGED resp
  /\ UNCHANGED <<kb, history, tickets, resolutions, served, settings>>

\* _promote_entry: UPDATE the tier, add the history row to the session.
SweepUpdate(s) ==
  /\ sess[s].pc = "sweep_update"
  /\ ~Locked(Head(sess[s].todo), s)
  /\ LET x == sess[s]
         id == Head(x.todo)
         st == promote_entry([kb |-> View(s), pending |-> x.pending,
                              promotions |-> x.promotions, ok |-> TRUE],
                             id, x.cache[id], PassFrom(x.pass), PassTo(x.pass), x.now)
         y == [x EXCEPT !.wkb = Put(x.wkb, id, st.kb[id]),
                        !.pending = st.pending,
                        !.promotions = st.promotions,
                        !.cache = Put(x.cache, id, [x.cache[id] EXCEPT !.tier = PassTo(x.pass)])]
     IN \E z \in Advance(s, y) : sess' = [sess EXCEPT ![s] = z]
  /\ UNCHANGED <<kb, history, tickets, resolutions, resp, served, settings>>

\* session.commit() of the sweep: the rows written and the pending history
\* rows reach the database, the response is returned.
Commit(s) ==
  /\ sess[s].pc = "commit"
  /\ LET x == sess[s]
     IN /\ kb' = [id \in KbIds |-> IF id \in DOMAIN x.wkb THEN x.wkb[id] ELSE kb[id]]
        /\ history' = history \o x.pending
        /\ resp' = Response(x.op, 200, x.promotions)
  /\ sess' = [sess EXCEPT ![s] = IdleSession]
  /\ UNCHANGED <<tickets, resolutions, served, settings>>

\* Two sweeps each waiting for a row the other holds: the database aborts
\* one of them.
DeadlockAbort(s) ==
  /\ sess[s].pc = "sweep_update"
  /\ \E o \in Sessions \ {s} :
       /\ sess[o].pc = "sweep_update"
       /\ Head(sess[s].todo) \in DOMAIN sess[o].wkb
       /\ Head(sess[o].todo) \in DOMAIN sess[s].wkb
  /\ resp' = Response(sess[s].op, 500, <<>>)
  /\ sess' = [sess EXCEPT ![s] = IdleSession]
  /\ UNCHANGED <<kb, history, tickets, resolutions, served, settings>>

NextConc ==
  \E s \in Sessions :
    \/ \E t \in ConcTicketIds \cup {MissingTicket},
          k \in KbIds \cup {MissingKb, None},
          f \in ConcFeedbackScores \cup {None} : BeginResolve(s, t, k, f)
    \/ ResUpdateTicket(s)
    \/ RuSelect(s)
    \/ RuUpdate(s)
    \/ Commit1(s)
    \/ SweepSelect(s)
    \/ BeginSweep(s)
    \/ SweepCheck(s)
    \/ SweepUpdate(s)
    \/ Commit(s)
    \/ DeadlockAbort(s)

SpecConc == InitConc /\ [][NextConc]_vars

-----------------------------------------------------------------------------
(* Float columns: the binary64 arithmetic of record_usage *)

\* avg_feedback_score is a double precision column and Python computes
\* (avg_feedback_score * usage_count + feedback_score) / new_usage_count in
\* binary64, rounding to nearest-even after each of the three operations.
\* The values met here are 0 or lie in [1, 64): integer multiples of 2^-52.
\* A value is held as the three limbs <<h, m, l>>, base 2^20, of that
\* multiple, so that 1.0 is <<2^12, 0, 0>>.
F64LimbBase == 2^20

F64One == 2^12

F64FromInt(n) == <<n * F64One, 0, 0>>

\* Carries the overflow of the two low limbs upward.
F64Norm(h, m, l) ==
  LET m2 == m + (l \div F64LimbBase)
  IN <<h + (m2 \div F64LimbBase), m2 % F64LimbBase, l % F64LimbBase>>

\* Spacing of the binary64 values around a value with top limb h, counted
\* in multiples of 2^-52: 1 in [1, 2), 2 in [2, 4), 4 in [4, 8), ...
RECURSIVE F64Ulp(_)
F64Ulp(h) == IF h < 2 * F64One THEN 1 ELSE 2 * F64Ulp(h \div 2)

\* The binary64 value nearest to x + r/d (0 <= r < d), ties to even.
F64Round(x, r, d) ==
  LET g == F64Ulp(x[1])
      low == x[3] % g
      twice == 2 * (low * d + r)
      up == \/ twice > g * d
            \/ twice = g * d /\ (x[3] \div g) % 2 = 1
  IN F64Norm(x[1], x[2], x[3] - low + (IF up THEN g ELSE 0))

\* float * int
F64Mul(x, c) == F64Round(F64Norm(x[1] * c, x[2] * c, x[3] * c), 0, 1)

\* float + int
F64Add(x, f) == F64Round(<<x[1] + f * F64One, x[2], x[3]>>, 0, 1)

\* float / int, by long division over the limbs
F64Div(x, n) ==
  LET r1 == x[1] % n
      r2 == (r1 * F64LimbBase + x[2]) % n
      r3 == (r2 * F64LimbBase + x[3]) % n
  IN F64Round(<<x[1] \div n,
                (r1 * F64LimbBase + x[2]) \div n,
                (r2 * F64LimbBase + x[3]) \div n>>, r3, n)

\* The feedback average averaged with the new score, ignoring the count.
record_usage_avg_f64_unweighted(a, c, feedback_score) ==
  IF feedback_score # None
  THEN F64Div(F64Add(a, feedback_score), 2)
  ELSE a

\* new_feedback_avg as Python computes it from the column values a and c.
record_usage_avg_f64(a, c, feedback_score) ==
  IF feedback_score # None
  THEN F64Div(F64Add(F64Mul(a, c), feedback_score), c + 1)
  ELSE a

-----------------------------------------------------------------------------
(* record_usage called on fresh entries *)

\* Calls of record_usage made in one behaviour.
MaxUsages == 8

\* Calls made without a feedback score on existing entries in one behaviour.
MaxUnrated == 1

\* Two of the ratings 1..5; their running mean over eight usages is where
\* the binary64 result first depends on the order of the calls.
UsageFeedbackScores == {2, 5}

\* A row as inserted with the column defaults: usage_count 0,
\* success_rate 0.0, avg_feedback_score 0.0.  avg_feedback_score holds the
\* value in exact arithmetic, avg_feedback_f64 the value the column holds.
FreshEntry ==
  [tier |-> "L3", usage_count |-> 0, success_rate |-> <<0, 1>>,
   avg_feedback_score |-> <<0, 1>>, is_active |-> TRUE,
   avg_feedback_f64 |-> F64FromInt(0)]

InitUsage ==
  /\ kb = [id \in KbIds |-> FreshEntry]
  /\ history = <<>>
  /\ tickets = [t \in TicketIds |-> "open"]
  /\ resolutions = [t \in TicketIds |-> 0]
  /\ resp = Response("none", 0, <<>>)
  /\ sess = [s \in Sessions |-> IdleSession]
  /\ served = NoneServed
  /\ settings = DefaultSettings

\* The log of an entry's feedback_score arguments is kept in ascending
\* order under SpecUsage: the multiset of the values, whatever their order.
InsertSorted(log, f) ==
  LET k == Cardinality({i \in 1..Len(log) : log[i] <= f})
  IN SubSeq(log, 1, k) \o <<f>> \o SubSeq(log, k + 1, Len(log))

\* await kb_service.record_usage(session, kb_id, feedback_score,
\* was_successful), alone in its transaction.
Unrated(log) == Cardinality({i \in 1..Len(log) : log[i] = None})

RecordUsage(kb_id, feedback_score, was_successful) ==
  /\ served.requests < MaxUsages
  /\ feedback_score = None /\ kb_id \in DOMAIN kb =>
       SumOver([id \in KbIds |-> Unrated(served.calls[id])], KbIds) < MaxUnrated
  /\ served' =
       [calls |-> IF kb_id \in DOMAIN kb
                  THEN [served.calls EXCEPT ![kb_id] = InsertSorted(@, feedback_score)]
                  ELSE served.calls,
        requests |-> served.requests + 1]
  /\ LET K1 == record_usage(kb, kb_id, feedback_score, was_successful)
     IN kb' = [id \in DOMAIN K1 |->
                 IF id = kb_id /\ id \in DOMAIN kb
                 THEN [K1[id] EXCEPT !.avg_feedback_f64 =
                         record_usage_avg_f64(kb[id].avg_feedback_f64,
                                              kb[id].usage_count, feedback_score)]
                 ELSE K1[id]]
  /\ resp' = Response("record_usage", 0, <<>>)
  /\ UNCHANGED <<history, tickets, resolutions, sess, settings>>

NextUsage ==
  \E kb_id \in KbIds \cup {MissingKb},
     feedback_score \in UsageFeedbackScores \cup {None},
     was_successful \in BOOLEAN :
    RecordUsage(kb_id, feedback_score, was_successful)

SpecUsage == InitUsage /\ [][NextUsage]_vars

-----------------------------------------------------------------------------
(* SemanticSearchService.hybrid_search *)

\* Scores are held in tenths and weights in tenths, so that a hybrid score
\* is an integer number of hundredths.  The comparisons of the code are
\* made on the one computed value, which the exact product stands for.
min_score_threshold == 50
stop_cascade_score == 70

\* Rows of the search catalog.
NumSearchEntries == 3

\* Service calls made in one behaviour; a search writes nothing.
MaxSearches == 1

SearchIds == 1..NumSearchEntries

\* Vector(384): an embedding is known to the search by being there.
embedding_dim == 384

\* tier = None of hybrid_search: no tier filter.
NoTier == "None"

\* A knowledge_base row with its embedding column: None (NULL) until the
\* embedding was computed.
SearchEntry(t, act, emb) ==
  [tier |-> t, usage_count |-> 0, success_rate |-> <<0, 1>>,
   avg_feedback_score |-> <<0, 1>>, is_active |-> act, embedding |-> emb]

\* What the two oracles give for one row: <<semantic_score, keyword_score>>
\* = <<1 - cosine distance, ts_rank>>, in tenths.  With the default weights
\* the hybrid scores are 49, 50 and 70 hundredths.
ScorePairs == {<<7, 0>>, <<5, 5>>, <<10, 0>>}

\* A query is known to the search by the scores it gives to every row.
Queries == [SearchIds -> ScorePairs]

\* WHERE kb.is_active = true AND kb.embedding IS NOT NULL
\* without either condition
search_candidates_unfiltered(K, tier) ==
  {id \in DOMAIN K : tier # NoTier => K[id].tier = tier}

\* WHERE kb.is_active = true AND kb.embedding IS NOT NULL [AND kb.tier = :tier]
search_candidates(K, tier) ==
  {id \in DOMAIN K :
     /\ K[id].is_active
     /\ K[id].embedding # None
     /\ tier # NoTier => K[id].tier = tier}

\* semantic_score * :semantic_weight + keyword_score * :keyword_weight
hybrid_score(pair, sw, kw) == pair[1] * sw + pair[2] * kw

\* One dictionary of the returned list.
SearchRow(K, query, id, sw, kw) ==
  [id |-> id, tier |-> K[id].tier,
   semantic_score |-> query[id][1], keyword_score |-> query[id][2],
   hybrid_score |-> hybrid_score(query[id], sw, kw)]

\* ORDER BY hybrid_score DESC: rows of equal score come in any order.
RankOrders(rows) ==
  {ord \in Orderings(rows) :
     \A i, j \in 1..Len(ord) : i < j => ord[i].hybrid_score >= ord[j].hybrid_score}

\* An optional argument left at its default None.
Unset == -1

\* Python's "x or default": None and 0 are both falsy.
PyOr(x, default) == IF x = Unset \/ x = 0 THEN default ELSE x

\* The lists the call can return.
hybrid_search(K, cfg, query, tier, top_k, sw_arg, kw_arg) ==
  LET k == PyOr(top_k, cfg.top_k_results)
      sw == PyOr(sw_arg, cfg.semantic_weight)
      kw == PyOr(kw_arg, cfg.keyword_weight)
      rows == {SearchRow(K, query, id, sw, kw) : id \in search_candidates(K, tier)}
  IN {Take(ord, k) : ord \in RankOrders(rows)}

-----------------------------------------------------------------------------
(* KnowledgeBaseService.search_tiered *)

tier_order == <<"L1", "L2", "L3">>

\* tier_order[start_idx:] always from L1
tier_order_from_first(start_tier) == tier_order

\* tier_order[start_idx:]
tier_order_from(start_tier) ==
  SubSeq(tier_order, TierNum(start_tier), Len(tier_order))

\* The threshold filter letting every result through.
qualified_results_unfiltered(results, threshold) == results

\* [r for r in results if r["hybrid_score"] >= min_score_threshold]
qualified_results(results, threshold) ==
  LET Accept(r) == r.hybrid_score >= threshold
  IN SelectSeq(results, Accept)

\* The two breaks with the test of the cascade flag left out.
stop_cascade_on_good_only(qualified, cascade) ==
  qualified[1].hybrid_score >= stop_cascade_score

\* The two breaks with the score test made on the last qualified row.
stop_cascade_on_last_row(qualified, cascade) ==
  \/ ~cascade
  \/ qualified[Len(qualified)].hybrid_score >= stop_cascade_score

\* The two breaks taken after a tier gave qualified results.
stop_cascade(qualified, cascade) ==
  \/ ~cascade
  \/ qualified[1].hybrid_score >= stop_cascade_score

\* The for loop over the remaining tiers; the set of the <<all_results,
\* searched_tiers>> it can end with.
RECURSIVE cascade_loop(_, _, _, _, _, _, _, _)
cascade_loop(K, cfg, query, tiers, threshold, cascade, all_results, searched_tiers) ==
  IF tiers = <<>>
  THEN {<<all_results, searched_tiers>>}
  ELSE UNION {
         LET searched == Append(searched_tiers, Head(tiers))
             qualified == qualified_results(results, threshold)
         IN IF qualified # <<>>
            THEN IF stop_cascade(qualified, cascade)
                 THEN {<<all_results \o qualified, searched>>}
                 ELSE cascade_loop(K, cfg, query, Tail(tiers), threshold, cascade,
                                   all_results \o qualified, searched)
            ELSE cascade_loop(K, cfg, query, Tail(tiers), threshold, cascade,
                              all_results, searched)
         : results \in hybrid_search(K, cfg, query, Head(tiers), cfg.top_k_results, Unset, Unset)}

\* A descending sort that puts a row before the rows of equal score that
\* came before it.
RECURSIVE sort_desc_ties_reversed(_)
sort_desc_ties_reversed(rows) ==
  IF rows = <<>> THEN <<>>
  ELSE LET sorted == sort_desc_ties_reversed(SubSeq(rows, 1, Len(rows) - 1))
           r == rows[Len(rows)]
           k == Cardinality({i \in 1..Len(sorted) : sorted[i].hybrid_score > r.hybrid_score})
       IN SubSeq(sorted, 1, k) \o <<r>> \o SubSeq(sorted, k + 1, Len(sorted))

\* list.sort(key=hybrid_score, reverse=True): stable, equal scores keep
\* their order.
RECURSIVE sort_desc(_)
sort_desc(rows) ==
  IF rows = <<>> THEN <<>>
  ELSE LET sorted == sort_desc(SubSeq(rows, 1, Len(rows) - 1))
           r == rows[Len(rows)]
           k == Cardinality({i \in 1..Len(sorted) : sorted[i].hybrid_score >= r.hybrid_score})
       IN SubSeq(sorted, 1, k) \o <<r>> \o SubSeq(sorted, k + 1, Len(sorted))

\* The dictionaries the call can return.
search_tiered(K, cfg, query, start_tier, threshold, cascade) ==
  {[results |-> Take(sort_desc(out[1]), cfg.top_k_results),
    searched_tiers |-> out[2],
    total_found |-> Len(out[1]),
    query |-> query] :
     out \in cascade_loop(K, cfg, query, tier_order_from(start_tier),
                          threshold, cascade, <<>>, <<>>)}

-----------------------------------------------------------------------------
(* Searches over a fixed catalog *)

\* Configured result limits: the default and a smaller one that the
\* catalog can exceed.
TopKSettings == {top_k_results, 2}

\* Every row but the last is active and embedded; the last row may be
\* deactivated or still without its embedding.
InitSearchKb ==
  {K \in [SearchIds -> {SearchEntry(t, act, emb) :
                          t \in KnowledgeTier, act \in BOOLEAN, emb \in {None, embedding_dim}}] :
     \A id \in SearchIds :
       id < NumSearchEntries => K[id].is_active /\ K[id].embedding # None}

\* served.calls logs the arguments of the service calls made.
InitSearch ==
  /\ kb \in InitSearchKb
  /\ history = <<>>
  /\ tickets = [t \in TicketIds |-> "open"]
  /\ resolutions = [t \in TicketIds |-> 0]
  /\ resp = Response("none", 0, <<>>)
  /\ sess = [s \in Sessions |-> IdleSession]
  /\ served = [calls |-> <<>>, requests |-> 0]
  /\ settings \in {[DefaultSettings EXCEPT !.top_k_results = k] : k \in TopKSettings}

\* await knowledge_base_service.search_tiered(session, query, start_tier,
\* min_score_threshold, cascade)
SearchTiered(query, start_tier, threshold, cascade) ==
  /\ served.requests < MaxSearches
  /\ \E out \in search_tiered(kb, settings, query, start_tier, threshold, cascade) :
       resp' = Response("search_tiered", 200, out)
  /\ served' =
       [calls |-> Append(served.calls,
                         [query |-> query, start_tier |-> start_tier,
                          min_score_threshold |-> threshold, cascade |-> cascade]),
        requests |-> served.requests + 1]
  /\ UNCHANGED <<kb, history, tickets, resolutions, sess, settings>>

\* await semantic_search_service.hybrid_search(session, query, tier, top_k,
\* semantic_weight, keyword_weight)
HybridSearch(query, tier, top_k, sw, kw) ==
  /\ served.requests < MaxSearches
  /\ \E results \in hybrid_search(kb, settings, query, tier, top_k, sw, kw) :
       resp' = Response("hybrid_search", 200, results)
  /\ served' =
       [calls |-> Append(served.calls,
                         [query |-> query, tier |-> tier, top_k |-> top_k,
                          semantic_weight |-> sw, keyword_weight |-> kw]),
        requests |-> served.requests + 1]
  /\ UNCHANGED <<kb, history, tickets, resolutions, sess, settings>>

\* Acceptance thresholds passed: the default and the stop-early score.
Thresholds == {min_score_threshold, stop_cascade_score}

\* <<top_k, semantic_weight, keyword_weight>> passed to the ranker: left
\* out, a limit of one, an even split, keyword score alone, a limit of 0.
RankerArgs ==
  {<<Unset, Unset, Unset>>, <<1, Unset, Unset>>, <<Unset, 5, 5>>, <<1, 5, 5>>,
   <<Unset, 0, 10>>, <<0, Unset, Unset>>}

NextSearch ==
  \/ \E query \in Queries, start_tier \in KnowledgeTier,
        threshold \in Thresholds, cascade \in BOOLEAN :
       SearchTiered(query, start_tier, threshold, cascade)
  \/ \E query \in Queries, tier \in KnowledgeTier \cup {NoTier}, a \in RankerArgs :
       HybridSearch(query, tier, a[1], a[2], a[3])

SpecSearch == InitSearch /\ [][NextSearch]_vars

-----------------------------------------------------------------------------
(* AutoPromotionService.get_promotion_candidates *)

\* usage_count >= threshold * 0.7: with the thresholds 10 and 25 the
\* product is 7.0 and 17.5 exactly.
IsCandidate(entry, from_tier, usage_threshold) ==
  /\ entry.tier = from_tier
  /\ entry.is_active
  /\ 10 * entry.usage_count >= 7 * usage_threshold

\* The candidates query keeping the rows of every tier.
promotion_candidate_ids_any_tier(K, from_tier, usage_threshold) ==
  {id \in DOMAIN K : K[id].is_active /\ 10 * K[id].usage_count >= 7 * usage_threshold}

promotion_candidate_ids(K, from_tier, usage_threshold) ==
  {id \in DOMAIN K : IsCandidate(K[id], from_tier, usage_threshold)}

\* One dictionary of a candidates list; progress_percent in tenths of a
\* percent, min(100, usage_count / threshold * 100) rounded to one decimal.
CandidateItem(id, entry, usage_threshold) ==
  LET progress == (entry.usage_count * 1000) \div usage_threshold
  IN [id |-> id, usage_count |-> entry.usage_count, threshold |-> usage_threshold,
      progress_percent |-> IF progress > 1000 THEN 1000 ELSE progress,
      avg_feedback |-> entry.avg_feedback_score,
      feedback_qualified |-> RatGE(entry.avg_feedback_score, min_feedback_score)]

\* ORDER BY usage_count DESC: rows of equal usage_count come in any order.
candidate_lists(K, from_tier, usage_threshold) ==
  {[i \in 1..Len(ord) |-> CandidateItem(ord[i], K[ord[i]], usage_threshold)] :
     ord \in {o \in Orderings(promotion_candidate_ids(K, from_tier, usage_threshold)) :
                \A i, j \in 1..Len(o) :
                  i < j => K[o[i]].usage_count >= K[o[j]].usage_count}}

\* The dictionaries get_promotion_candidates can return.
get_promotion_candidates(K) ==
  {[L3_to_L2 |-> a, L2_to_L1 |-> b] :
     a \in candidate_lists(K, "L3", l3_to_l2_threshold),
     b \in candidate_lists(K, "L2", l2_to_l1_threshold)}

-----------------------------------------------------------------------------
(* Promotion requests over entries with usage on record *)

\* Ratings given with the resolutions of SpecPromo.
PromoFeedbackScores == {5}

\* Entry 1 has twenty-four usages whose ratings sum to 95: its average stayed
\* below min_feedback_score, so no sweep promoted it.  The last entry is
\* one usage below the L3 -> L2 threshold and may have been deactivated.
InitPromoKb ==
  {K \in [KbIds -> {Entry("L3", 24, <<1, 1>>, <<95, 24>>, TRUE),
                    Entry("L3", 9, <<1, 1>>, <<4, 1>>, TRUE),
                    Entry("L3", 9, <<1, 1>>, <<4, 1>>, FALSE)}] :
     /\ \A id \in KbIds : id < NumEntries => K[id].usage_count = 24
     /\ K[NumEntries].usage_count = 9}

InitPromo ==
  /\ kb \in InitPromoKb
  /\ history = <<>>
  /\ tickets = [t \in TicketIds |-> "open"]
  /\ resolutions = [t \in TicketIds |-> 0]
  /\ resp = Response("none", 0, <<>>)
  /\ sess = [s \in Sessions |-> IdleSession]
  /\ served = NoneServed
  /\ settings = DefaultSettings

\* GET /promotions/candidates
GetPromotionCandidates ==
  /\ \E candidates \in get_promotion_candidates(kb) :
       resp' = Response("get_promotion_candidates", 200, candidates)
  /\ UNCHANGED <<kb, history, tickets, resolutions, sess, served, settings>>

NextPromo ==
  \/ \E t \in TicketIds, k \in KbIds, f \in PromoFeedbackScores \cup {None} :
       ResolveTicket(t, k, f)
  \/ RunAutoPromotion
  \/ \E t \in KnowledgeTier : ManualPromote(NumEntries, t)
  \/ GetPromotionHistory(None, HistoryDefaultLimit)
  \/ GetPromotionCandidates

SpecPromo == InitPromo /\ [][NextPromo]_vars

-----------------------------------------------------------------------------
(* SentimentAnalyzer.analyze and UrgencyCalculator.calculate *)

\* A text is the set of the words it holds, lower-cased.  TitleWords
\* and DescriptionWords are the words a title and a description are made
\* of here; " " stands for white space.
TitleWords == {" ", "hello", "failed", "urgent"}
DescriptionWords == {"emergency", "down", "cannot login", "stuck", "!!!"}

\* f"{title} {description}".lower()
combined_text(title, description) == title \cup {" "} \cup description

\* text.strip(): what is left once the white space is taken away.
strip(text) == text \ {" "}

\* settings.critical_keywords_list and settings.high_urgency_keywords_list
\* with their defaults.
critical_keywords_list ==
  <<"payment", "security", "breach", "outage", "down", "emergency", "critical">>
high_urgency_keywords_list == <<"error", "failed", "broken", "urgent", "asap">>

\* keyword in text: the keyword is a substring of one of the words.
Substrings(word) ==
  CASE word = "failed" -> {"failed"}
    [] word = "urgent" -> {"urgent"}
    [] word = "emergency" -> {"emergency"}
    [] word = "down" -> {"down"}
    [] word = "cannot login" -> {"login"}
    [] OTHER -> {}

KeywordIn(keyword, text) == \E word \in text : keyword \in Substrings(word)

\* The scan of one keyword list: the first keyword of the list that is in
\* the text, as a list of one, or the empty list.
first_keyword_in(keywords, text) ==
  LET hits == {i \in 1..Len(keywords) : KeywordIn(keywords[i], text)}
  IN IF hits = {} THEN <<>>
     ELSE <<keywords[CHOOSE i \in hits : \A j \in hits : i <= j]>>

\* The keyword scan looking at the high-urgency list before the critical one.
keyword_scan_high_first(text) ==
  LET critical == first_keyword_in(critical_keywords_list, text)
      high == first_keyword_in(high_urgency_keywords_list, text)
  IN IF high # <<>> THEN [keyword_factor |-> 250, matched_keywords |-> high]
     ELSE IF critical # <<>> THEN [keyword_factor |-> 400, matched_keywords |-> critical]
     ELSE [keyword_factor |-> 0, matched_keywords |-> <<>>]

\* The two loops over the keyword lists: keyword_factor in hundredths and
\* matched_keywords.
keyword_scan(text) ==
  LET critical == first_keyword_in(critical_keywords_list, text)
      high == first_keyword_in(high_urgency_keywords_list, text)
  IN IF critical # <<>> THEN [keyword_factor |-> 400, matched_keywords |-> critical]
     ELSE IF high # <<>> THEN [keyword_factor |-> 250, matched_keywords |-> high]
     ELSE [keyword_factor |-> 0, matched_keywords |-> <<>>]

\* The keys of category_keywords in their order, with the keywords of each.
category_keywords ==
  << <<"payment", {"payment", "billing", "invoice", "charge", "refund", "transaction"}>>,
     <<"security", {"security", "breach", "hack", "virus", "malware", "phishing", "vulnerability"}>>,
     <<"outage", {"outage", "down", "offline", "unavailable", "503", "500 error"}>>,
     <<"authentication", {"login", "password", "auth", "sso", "mfa", "2fa", "locked out"}>>,
     <<"email", {"email", "outlook", "inbox", "smtp", "mail"}>>,
     <<"network", {"vpn", "network", "wifi", "internet", "connection", "dns"}>>,
     <<"hardware", {"printer", "laptop", "monitor", "keyboard", "mouse", "hardware"}>>,
     <<"database", {"database", "sql", "query", "replication", "backup"}>>,
     <<"performance", {"slow", "performance", "lag", "timeout", "memory"}>> >>

\* Detection keeping the last category of the table with a hit.
detect_category_last_hit(text) ==
  LET hits == {i \in 1..Len(category_keywords) :
                 \E keyword \in category_keywords[i][2] : KeywordIn(keyword, text)}
  IN IF hits = {} THEN "general"
     ELSE category_keywords[CHOOSE i \in hits : \A j \in hits : j <= i][1]

\* The first category one of whose keywords is in the text, else "general".
detect_category(text) ==
  LET hits == {i \in 1..Len(category_keywords) :
                 \E keyword \in category_keywords[i][2] : KeywordIn(keyword, text)}
  IN IF hits = {} THEN "general"
     ELSE category_keywords[CHOOSE i \in hits : \A j \in hits : i <= j][1]

\* category or self._detect_category(combined_text)
resolve_category(category, text) ==
  IF category = "None" \/ category = "" THEN detect_category(text) ELSE category

CATEGORY_URGENCY(category) ==
  CASE category = "payment" -> 8
    [] category = "security" -> 9
    [] category = "outage" -> 10
    [] category = "authentication" -> 6
    [] category = "email" -> 4
    [] category = "network" -> 5
    [] category = "hardware" -> 3
    [] category = "software" -> 4
    [] category = "database" -> 7
    [] category = "performance" -> 5
    [] category = "general" -> 3
    [] OTHER -> 3

\* The urgent_patterns, by position, that re.search finds in a word.
PatternsIn(word) ==
  CASE word \in {"emergency", "urgent"} -> {1}
    [] word \in {"down", "failed"} -> {2}
    [] word = "cannot login" -> {3}
    [] word = "stuck" -> {4}
    [] word = "!!!" -> {5}
    [] OTHER -> {}

matching_patterns(text) == UNION {PatternsIn(word) : word \in text}

\* Outputs of the BERT pipeline: the five star labels and a label the
\* mapping does not know.
RawLabels == {"1 star", "2 stars", "3 stars", "4 stars", "5 stars", "LABEL_0"}

SENTIMENT_LABELS(raw_label) ==
  CASE raw_label = "1 star" -> "very_negative"
    [] raw_label = "2 stars" -> "negative"
    [] raw_label = "3 stars" -> "neutral"
    [] raw_label = "4 stars" -> "positive"
    [] raw_label = "5 stars" -> "very_positive"
    [] OTHER -> "neutral"

\* Sentiment scores are in hundredths.
SENTIMENT_SCORES(label) ==
  CASE label = "very_negative" -> -100
    [] label = "negative" -> -50
    [] label = "neutral" -> 0
    [] label = "positive" -> 50
    [] label = "very_positive" -> 100
    [] OTHER -> 0

\* Confidence the pipeline reports, in hundredths.
PipelineConfidence == 90

\* analyze() that hands every text to the pipeline.
analyze_always_invokes(text, raw_label) ==
  [label |-> SENTIMENT_LABELS(raw_label),
   score |-> SENTIMENT_SCORES(SENTIMENT_LABELS(raw_label)),
   confidence |-> PipelineConfidence, raw_label |-> raw_label,
   pipeline_calls |-> 1]

\* SentimentAnalyzer.analyze; raw_label is what the pipeline answers when
\* it is asked, pipeline_calls counts the times it was.
analyze(text, raw_label) ==
  IF text = {} \/ strip(text) = {}
  THEN [label |-> "neutral", score |-> 0, confidence |-> 0,
        raw_label |-> "None", pipeline_calls |-> 0]
  ELSE [label |-> SENTIMENT_LABELS(raw_label),
        score |-> SENTIMENT_SCORES(SENTIMENT_LABELS(raw_label)),
        confidence |-> PipelineConfidence, raw_label |-> raw_label,
        pipeline_calls |-> 1]

\* The sentiment services a calculator is built with: the analyzer, whose
\* pipeline answers raw_label, or a service passed to the constructor that
\* answers the same score in [-1, 1] for every text.
StubScores == {10 * s - 100 : s \in 0..20}

SentimentServices ==
  {[kind |-> "analyzer", raw_label |-> l, score |-> 0] : l \in RawLabels}
    \cup {[kind |-> "stub", raw_label |-> "None", score |-> s] : s \in StubScores}

\* self._sentiment.analyze(combined_text)
service_analyze(service, text) ==
  IF service.kind = "analyzer" THEN analyze(text, service.raw_label)
  ELSE [label |-> "stub", score |-> service.score, confidence |-> 100,
        raw_label |-> "None", pipeline_calls |-> 0]

\* Rounding to the nearest integer with a tie going up.
RoundHalfUp(n, unit) == (2 * n + unit) \div (2 * unit)

\* round(n / unit) of Python 3 for n >= 0: to the nearest integer, a tie
\* to the even one.
RoundHalfEven(n, unit) ==
  LET q == n \div unit
      r == n % unit
  IN IF 2 * r < unit THEN q
     ELSE IF 2 * r > unit THEN q + 1
     ELSE IF q % 2 = 0 THEN q ELSE q + 1

Max(a, b) == IF a >= b THEN a ELSE b
Min(a, b) == IF a <= b THEN a ELSE b

\* The five factors, in hundredths, in the order they are put in the
\* dict.  (1 - score) * 1.5 is taken in thousandths and rounded to two
\* places.
urgency_factors(text, sentiment_score, category, user_tier) ==
  [sentiment |-> RoundHalfEven(Max(0, (100 - sentiment_score) * 15), 10),
   keywords |-> keyword_scan(text).keyword_factor,
   category |->
     RoundHalfEven(CATEGORY_URGENCY(resolve_category(category, text)) * 200, 10),
   user_tier |-> IF user_tier = "premium" THEN 100
                 ELSE IF user_tier = "standard" THEN 50 ELSE 0,
   text_indicators |-> Min(25 * Cardinality(matching_patterns(text)), 100)]

\* sum(factors.values()), in hundredths
raw_score(factors) ==
  factors.sentiment + factors.keywords + factors.category
    + factors.user_tier + factors.text_indicators

URGENCY_THRESHOLDS(level) ==
  CASE level = "critical" -> 8
    [] level = "high" -> 6
    [] level = "medium" -> 4
    [] level = "low" -> 1

TIER_THRESHOLDS(tier) ==
  CASE tier = "L3" -> 8
    [] tier = "L2" -> 5
    [] tier = "L1" -> 1

get_urgency_level(score) ==
  IF score >= URGENCY_THRESHOLDS("critical") THEN "critical"
  ELSE IF score >= URGENCY_THRESHOLDS("high") THEN "high"
  ELSE IF score >= URGENCY_THRESHOLDS("medium") THEN "medium"
  ELSE "low"

\* Tier assignment with the thresholds of the levels.
get_tier_assignment_by_level(score) ==
  IF score >= URGENCY_THRESHOLDS("critical") THEN "L3"
  ELSE IF score >= URGENCY_THRESHOLDS("medium") THEN "L2"
  ELSE "L1"

get_tier_assignment(score) ==
  IF score >= TIER_THRESHOLDS("L3") THEN "L3"
  ELSE IF score >= TIER_THRESHOLDS("L2") THEN "L2"
  ELSE "L1"

\* The final score without the clamp.
final_score_unclamped(raw) == RoundHalfEven(raw, 100)

\* max(1, min(10, round(raw_score)))
final_score(raw) == Max(1, Min(10, RoundHalfEven(raw, 100)))

\* What _build_explanation puts in the explanation besides the score and
\* the level.
build_explanation(factors, keywords, category) ==
  [keywords |-> keywords,
   negative_sentiment |-> factors.sentiment > 150,
   category |-> IF category # "general" THEN <<category>> ELSE <<>>,
   urgent_language |-> factors.text_indicators > 0]

\* UrgencyCalculator.calculate; sentiment_result is the answer of the
\* sentiment service, kept beside the UrgencyResult.
calculate(service, title, description, category, user_tier) ==
  LET text == combined_text(title, description)
      sentiment_result == service_analyze(service, text)
      factors == urgency_factors(text, sentiment_result.score, category, user_tier)
      score == final_score(raw_score(factors))
  IN [score |-> score,
      level |-> get_urgency_level(score),
      tier |-> get_tier_assignment(score),
      factors |-> factors,
      explanation |-> build_explanation(factors, keyword_scan(text).matched_keywords,
                                        resolve_category(category, text)),
      sentiment_result |-> sentiment_result]

-----------------------------------------------------------------------------
(* Urgency calculations *)

\* Categories passed to calculate: none, the empty string, a key of
\* CATEGORY_URGENCY and a string that is not one.
Categories == {"None", "", "security", "printing"}

\* user_tier arguments: none, the two tiers that score and one that does not.
UserTiers == {"None", "premium", "standard", "basic"}

\* Calls of calculate made in a behaviour.
MaxCalculations == 1

InitUrgency ==
  /\ kb = [id \in KbIds |-> FreshEntry]
  /\ history = <<>>
  /\ tickets = [t \in TicketIds |-> "open"]
  /\ resolutions = [t \in TicketIds |-> 0]
  /\ resp = Response("none", 0, <<>>)
  /\ sess = [s \in Sessions |-> IdleSession]
  /\ served = [calls |-> <<>>, requests |-> 0]
  /\ settings = DefaultSettings

\* UrgencyCalculator(service).calculate(title, description, category, user_tier)
Calculate(service, title, description, category, user_tier) ==
  /\ resp' = Response("calculate", 200,
                      calculate(service, title, description, category, user_tier))
  /\ served' =
       [calls |-> Append(served.calls,
                         [service |-> service, title |-> title,
                          description |-> description, category |-> category,
                          user_tier |-> user_tier]),
        requests |-> served.requests + 1]
  /\ UNCHANGED <<kb, history, tickets, resolutions, sess, settings>>

NextUrgency ==
  /\ served.requests < MaxCalculations
  /\ \E service \in SentimentServices, title \in SUBSET TitleWords,
        description \in SUBSET DescriptionWords, category \in Categories,
        user_tier \in UserTiers :
       Calculate(service, title, description, category, user_tier)

SpecUrgency == InitUrgency /\ [][NextUrgency]_vars

-----------------------------------------------------------------------------
(* Properties *)

Triple(r) == <<r.knowledge_id, r.from_tier, r.to_tier>>

AllIdle == \A s \in Sessions : sess[s].pc = "idle"

IsSweepResponse(r) == r.op \in {"run_auto_promotion", "resolve_ticket"}

\* C1: when sweeps run concurrently (POST /promotions/run and the sweep of
\* resolve_ticket in different sessions), the promotion history holds at
\* most one PromotionRecord per (entry, fromTier, toTier).
C1_OneRecordPerTripleConcurrent ==
  \A i, j \in 1..Len(history) :
    Triple(history[i]) = Triple(history[j]) => i = j

\* The entry after the record_usage calls with the feedback scores fs, one
\* after the other.
RECURSIVE ApplyUsages(_, _)
ApplyUsages(entry, fs) ==
  IF fs = <<>> THEN entry
  ELSE ApplyUsages(SetUsage(entry, record_usage_values(entry, Head(fs), TRUE)), Tail(fs))

SerialOutcomes(entry, log) ==
  {ApplyUsages(entry, [i \in 1..Len(log) |-> log[ord[i]]]) :
     ord \in Orderings(1..Len(log))}

\* C2: once N concurrent record_usage invocations on an entry have all
\* committed, its usage_count is the initial one plus N, and its
\* success_rate and avg_feedback_score are those of some serial order of
\* the same invocations.
C2_UsageUpdatesSerializable ==
  AllIdle =>
    \A id \in KbIds :
      /\ kb[id].usage_count = ConcKb0[id].usage_count + Len(served.calls[id])
      /\ \E e \in SerialOutcomes(ConcKb0[id], served.calls[id]) :
           /\ kb[id].usage_count = e.usage_count
           /\ kb[id].success_rate = e.success_rate
           /\ kb[id].avg_feedback_score = e.avg_feedback_score

\* C3: with requests served one at a time, the automatic path writes at
\* most one record per (entry, fromTier, toTier); an entry auto-promoted
\* L3 -> L2 and moved back to L3 is never auto-promoted L3 -> L2 again.
C3_AutoRecordUniquePerTriple ==
  \A id \in KbIds, f \in KnowledgeTier, t \in KnowledgeTier :
    Cardinality({i \in 1..Len(history) :
                   IsAuto(history[i]) /\ Triple(history[i]) = <<id, f, t>>}) <= 1

\* An entry with an automatic L3 -> L2 record is back in L3, qualifies
\* again, and a sweep has just run and left it in L3.
C3_Witness ==
  /\ resp = Response("run_auto_promotion", 200, <<>>)
  /\ \E id \in KbIds :
       /\ IsEligible(kb[id], "L3", l3_to_l2_threshold)
       /\ \E i \in 1..Len(history) :
            IsAuto(history[i]) /\ Triple(history[i]) = <<id, "L3", "L2">>

\* The sweep outcomes all leave the database as it is and return nothing.
SweepIsNoOp(K, H) ==
  \A st \in check_and_promote(K, H) :
    st.ok /\ st.promotions = <<>> /\ st.pending = <<>> /\ st.kb = K

\* C4: after POST /promotions/run has run, running it again with no usage,
\* tier or record change in between returns an empty promotion list,
\* changes no entry's tier and appends no PromotionRecord.
C4_SecondSweepReturnsEmpty ==
  resp.op = "run_auto_promotion" => SweepIsNoOp(kb, history)

\* C5: every PromotionRecord, automatic or forced, has a fromTier whose
\* number is strictly higher than its toTier's.
C5_RecordsMoveToLowerTierNumber ==
  \A i \in 1..Len(history) :
    TierNum(history[i].from_tier) > TierNum(history[i].to_tier)

\* The history rows appended by the step.
NewRecords == SubSeq(history', Len(history) + 1, Len(history'))

\* The tier of entry id just before the j-th appended row was written.
TierBefore(id, j) ==
  LET prior == {i \in 1..(j - 1) : NewRecords[i].knowledge_id = id}
  IN IF prior = {} THEN kb[id].tier
     ELSE NewRecords[CHOOSE i \in prior : \A m \in prior : m <= i].to_tier

Listed(r, id, f, t) ==
  /\ r.status = 200
  /\ \E j \in 1..Len(r.body) :
       r.body[j].id = id /\ r.body[j].from_tier = f /\ r.body[j].to_tier = t

\* C7: an active entry of a source tier with no prior record for the
\* transition is promoted by the sweep if and only if its usage_count is at
\* least the tier's threshold and its avg_feedback_score at least the
\* minimum, both bounds included.
C7_PromotedIffThresholdsMet ==
  [][resp'.op = "run_auto_promotion" =>
       \A id \in KbIds, p \in {1, 2} :
         ( /\ kb[id].tier = PassFrom(p)
           /\ kb[id].is_active
           /\ existing_promotion(history, id, PassFrom(p), PassTo(p)) = {} )
         => ( ( /\ Listed(resp', id, PassFrom(p), PassTo(p))
                /\ TierNum(kb'[id].tier) < TierNum(kb[id].tier) )
              <=> ( /\ kb[id].usage_count >= PassThreshold(p)
                    /\ RatGE(kb[id].avg_feedback_score, min_feedback_score) ) )]_vars

C9_ThresholdResolutionPromotes ==
  [][(resp'.op = "resolve_ticket" /\ resolutions' # resolutions) =>
       \A id \in KbIds, p \in {1, 2} :
         ( /\ kb'[id].usage_count = kb[id].usage_count + 1
           /\ kb[id].usage_count < PassThreshold(p)
           /\ IsEligible([kb'[id] EXCEPT !.tier = kb[id].tier], PassFrom(p), PassThreshold(p))
           /\ existing_promotion(history, id, PassFrom(p), PassTo(p)) = {} )
         => ( /\ Listed(resp', id, PassFrom(p), PassTo(p))
              /\ TierNum(kb'[id].tier) < TierNum(kb[id].tier) )]_vars

\* C10: a forced promotion sets the entry's tier to the requested tier and
\* appends exactly one PromotionRecord, whatever the entry's statistics and
\* whatever records exist; k forced promotions append k records.
C10_ForcePromoteAlwaysRecords ==
  [][\A id \in KbIds, t \in KnowledgeTier :
       ManualPromote(id, t) =>
         /\ kb'[id].tier = t
         /\ \A o \in KbIds \ {id} : kb'[o] = kb[o]
         /\ Len(history') = Len(history) + 1
         /\ SubSeq(history', 1, Len(history)) = history
         /\ Triple(history'[Len(history')]) = <<id, kb[id].tier, t>>
         /\ ~IsAuto(history'[Len(history')])]_vars

\* The same forced promotion of an entry below the thresholds was made
\* twice and left two records.
C10_Witness ==
  /\ resp.op = "manual_promote" /\ resp.status = 200
  /\ \E i, j \in 1..Len(history) :
       /\ i < j /\ j = Len(history)
       /\ ~IsAuto(history[i]) /\ ~IsAuto(history[j])
       /\ Triple(history[i]) = Triple(history[j])
       /\ ~IsEligible(kb[history[j].knowledge_id], history[j].to_tier, l3_to_l2_threshold)

\* C11: a forced promotion of an entry id that does not exist is answered
\* with not-found (HTTP 404) and changes nothing: no tier changes and no
\* PromotionRecord is appended.
C11_ForcePromoteMissingIsNotFound ==
  [][\A t \in KnowledgeTier :
       ManualPromote(MissingKb, t) =>
         /\ resp' = Response("manual_promote", 404, <<>>)
         /\ kb' = kb
         /\ history' = history]_vars

\* A forced promotion of a missing id was answered while the table holds
\* entries and the history holds records.
C11_Witness ==
  /\ resp = Response("manual_promote", 404, <<>>)
  /\ MissingKb \notin DOMAIN kb
  /\ Len(history) >= 2

\* C12: PromotionRecords are append-only: whatever operation runs, the
\* records already written stay, in place and with every field unchanged,
\* and records are only added.
C12_HistoryAppendOnly ==
  [][/\ Len(history') >= Len(history)
     /\ SubSeq(history', 1, Len(history)) = history]_vars

\* Automatic and forced promotions have both written records, two of them
\* for the same triple, and the history was then queried.
C12_Witness ==
  /\ resp.op = "get_promotion_history"
  /\ \E i, j, k \in 1..Len(history) :
       /\ i < j /\ Triple(history[i]) = Triple(history[j])
       /\ IsAuto(history[k])

\* C16: usage_count is never negative and never decreases; it changes only
\* in a resolve_ticket that records the usage of that entry, and then by
\* exactly one.
C16_UsageCountMonotone ==
  [][/\ \A id \in KbIds :
          /\ kb[id].usage_count >= 0
          /\ kb'[id].usage_count >= kb[id].usage_count
          /\ kb'[id].usage_count # kb[id].usage_count =>
               /\ kb'[id].usage_count = kb[id].usage_count + 1
               /\ \E t \in TicketIds, f \in FeedbackScores \cup {None} :
                    ResolveTicket(t, id, f)
     /\ \A t \in TicketIds, id \in KbIds, f \in FeedbackScores \cup {None} :
          ResolveTicket(t, id, f) =>
            /\ kb'[id].usage_count = kb[id].usage_count + 1
            /\ \A o \in KbIds \ {id} : kb'[o].usage_count = kb[o].usage_count]_vars

\* Both resolutions of the model recorded a usage of the same entry, with
\* forced promotions and a sweep in between.
C16_Witness ==
  \E id \in KbIds :
    /\ \E K \in InitKb : kb[id].usage_count = K[id].usage_count + MaxResolutions
    /\ Len(history) >= 2

-----------------------------------------------------------------------------
(* Usage recorder *)

RECURSIVE SeqSum(_)
SeqSum(log) == IF log = <<>> THEN 0 ELSE Head(log) + SeqSum(Tail(log))

\* Every call of the log carried a feedback score.
AllRated(log) == log # <<>> /\ \A i \in 1..Len(log) : log[i] # None

\* The binary64 value nearest to the arithmetic mean of the log.
F64Mean(log) == F64Div(F64FromInt(SeqSum(log)), Len(log))

\* Distance of two values in multiples of 2^-52, capped at one low limb.
F64Dist(x, y) ==
  LET d == (x[2] - y[2]) * F64LimbBase + x[3] - y[3]
  IN IF x[1] # y[1] \/ x[2] - y[2] > 1 \/ y[2] - x[2] > 1
     THEN 2 * F64LimbBase
     ELSE IF d < 0 THEN -d ELSE d

\* Four units in the last place of a rating: 2^-48.
F64Tolerance == 2^4

\* C13 as stated: from fresh entries, after N usages that all carried a
\* feedback score, the stored avg_feedback_score is the arithmetic mean of
\* the N scores whatever the order of the calls was.
C13_MeanSameInEveryOrder ==
  \A id \in KbIds :
    AllRated(served.calls[id]) =>
      kb[id].avg_feedback_f64 = F64Mean(served.calls[id])

\* C13 amended: the stored value lies within floating-point tolerance of the
\* arithmetic mean, and equals it in exact arithmetic, whatever the order.
C13_MeanWithinTolerance ==
  \A id \in KbIds :
    AllRated(served.calls[id]) =>
      /\ kb[id].avg_feedback_score = Rat(SeqSum(served.calls[id]), Len(served.calls[id]))
      /\ F64Dist(kb[id].avg_feedback_f64, F64Mean(served.calls[id])) <= F64Tolerance

\* Eight rated usages of both scores whose stored average is not the
\* binary64 value nearest to the mean.
C13_Witness ==
  \E id \in KbIds :
    /\ AllRated(served.calls[id])
    /\ Len(served.calls[id]) = MaxUsages
    /\ kb[id].avg_feedback_f64 # F64Mean(served.calls[id])
    /\ kb[id].avg_feedback_score = Rat(SeqSum(served.calls[id]), MaxUsages)

\* C14: one record_usage call on an existing entry with usage_count c,
\* success_rate s and avg_feedback_score a writes usage_count c + 1,
\* success_rate (s*c + (1 if successful else 0)) / (c + 1), and
\* avg_feedback_score (a*c + f) / (c + 1) when a score f was given, a
\* otherwise; the divisor c + 1 is at least 1, also when c = 0.
C14_UsageFormulas ==
  [][\A id \in KbIds, f \in UsageFeedbackScores \cup {None}, ok \in BOOLEAN :
       RecordUsage(id, f, ok) =>
         LET c == kb[id].usage_count
             s == kb[id].success_rate
             a == kb[id].avg_feedback_score
             s2 == kb'[id].success_rate
             a2 == kb'[id].avg_feedback_score
         IN /\ c + 1 >= 1
            /\ kb'[id].usage_count = c + 1
            /\ s2[2] > 0
            /\ s2[1] * (s[2] * (c + 1)) = (s[1] * c + (IF ok THEN 1 ELSE 0) * s[2]) * s2[2]
            /\ a2[2] > 0
            /\ IF f # None
               THEN a2[1] * (a[2] * (c + 1)) = (a[1] * c + f * a[2]) * a2[2]
               ELSE a2 = a]_vars

\* One entry after its first usage (c = 0), rated 5 and unsuccessful; the
\* other after rated and unrated usages of both outcomes.
C14_Witness ==
  \E id, other \in KbIds :
    /\ kb[id].usage_count = 1
    /\ kb[id].success_rate = <<0, 1>>
    /\ kb[id].avg_feedback_score = <<5, 1>>
    /\ kb[other].usage_count >= 3
    /\ kb[other].success_rate \notin {<<0, 1>>, <<1, 1>>}
    /\ \E i, j \in 1..Len(served.calls[other]) :
         served.calls[other][i] = None /\ served.calls[other][j] # None

\* C15: record_usage for an id that names no entry returns without error
\* and changes nothing: no entry's usage_count, success_rate or
\* avg_feedback_score is modified and no entry is created.
C15_MissingEntryIsNoOp ==
  [][\A f \in UsageFeedbackScores \cup {None}, ok \in BOOLEAN :
       RecordUsage(MissingKb, f, ok) =>
         /\ resp' = Response("record_usage", 0, <<>>)
         /\ DOMAIN kb' = DOMAIN kb
         /\ kb' = kb
         /\ history' = history]_vars

\* A call on the missing id was made after usages of an existing entry.
C15_Witness ==
  /\ resp.op = "record_usage"
  /\ MissingKb \notin DOMAIN kb
  /\ served.requests > SumOver([id \in KbIds |-> Len(served.calls[id])], KbIds)
  /\ \E id \in KbIds : kb[id].usage_count > 0

\* C34: a usage recorded without a feedback score increments usage_count
\* and leaves avg_feedback_score as it is, so it later weighs as if it had
\* carried the average of its time: a fresh entry that receives one usage
\* without feedback and then one with feedback f ends with
\* avg_feedback_score f / 2, and with f when the two come in the opposite
\* order.
C34_UnratedUsageWeighsInAverage ==
  [][\A id \in KbIds :
       served'.calls[id] # served.calls[id] =>
         LET log == served.calls[id]
             log2 == served'.calls[id]
         IN /\ kb'[id].usage_count = kb[id].usage_count + 1
            /\ log2 = InsertSorted(log, None) =>
                 /\ kb'[id].avg_feedback_score = kb[id].avg_feedback_score
                 /\ kb'[id].avg_feedback_f64 = kb[id].avg_feedback_f64
            /\ \A f \in UsageFeedbackScores :
                 /\ (log = <<None>> /\ log2 = InsertSorted(log, f)) =>
                      /\ kb'[id].usage_count = 2
                      /\ kb'[id].avg_feedback_score = Rat(f, 2)
                      /\ kb'[id].avg_feedback_f64 = F64Div(F64FromInt(f), 2)
                 /\ (log = <<f>> /\ log2 = InsertSorted(log, None)) =>
                      /\ kb'[id].usage_count = 2
                      /\ kb'[id].avg_feedback_score = Rat(f, 1)
                      /\ kb'[id].avg_feedback_f64 = F64FromInt(f)]_vars

\* An entry after one usage without feedback and one rated 5: two usages,
\* average 2.5.
C34_Witness ==
  \E id \in KbIds :
    /\ served.calls[id] = <<None, 5>>
    /\ kb[id].usage_count = 2
    /\ kb[id].avg_feedback_score = <<5, 2>>
    /\ kb[id].avg_feedback_f64 = F64Div(F64FromInt(5), 2)

-----------------------------------------------------------------------------
(* Tiered search *)

\* The arguments of the call that resp answers.
LastCall == served.calls[Len(served.calls)]

Range(seq) == {seq[i] : i \in 1..Len(seq)}

\* C17: for every start tier and cascade flag, searched_tiers is a
\* non-empty contiguous run of L1 < L2 < L3 that begins at the start tier
\* and proceeds toward L3, and every returned result belongs to a tier
\* listed in searched_tiers.
C17_SearchedTiersContiguous ==
  resp.op = "search_tiered" =>
    LET st == resp.body.searched_tiers
    IN /\ st # <<>>
       /\ st[1] = LastCall.start_tier
       /\ \A i \in 1..Len(st) :
            /\ st[i] \in KnowledgeTier
            /\ TierNum(st[i]) = TierNum(LastCall.start_tier) + i - 1
       /\ \A r \in Range(resp.body.results) :
            /\ r.tier \in Range(st)
            /\ r.tier = kb[r.id].tier

\* A search from L2 that went on to L3 and returned rows of both tiers,
\* over a catalog that has a searchable L1 row.
C17_Witness ==
  /\ resp.op = "search_tiered"
  /\ LastCall.start_tier = "L2"
  /\ resp.body.searched_tiers = <<"L2", "L3">>
  /\ \E r1, r2 \in Range(resp.body.results) : r1.tier = "L2" /\ r2.tier = "L3"
  /\ \E id \in search_candidates(kb, "L1") :
       hybrid_score(LastCall.query[id], semantic_weight, keyword_weight)
         >= LastCall.min_score_threshold

\* Tier t holds a searchable row that the query of the last call scores
\* at or above the threshold of that call.
TierQualifies(t) ==
  \E id \in DOMAIN kb :
    /\ kb[id].tier = t /\ kb[id].is_active /\ kb[id].embedding # None
    /\ LastCall.query[id][1] * settings.semantic_weight
         + LastCall.query[id][2] * settings.keyword_weight
         >= LastCall.min_score_threshold

\* C18: with cascading disabled the search stops right after the first
\* tier, from the start tier upward, that yields a qualified result, and
\* all returned results come from that tier; a tier without a qualified
\* result never stops the search, whatever the cascade flag: the search
\* goes on until a tier qualifies or L3 has been searched.
C18_NoCascadeStopsAtFirstQualifyingTier ==
  resp.op = "search_tiered" =>
    LET st == resp.body.searched_tiers
        last == st[Len(st)]
    IN /\ ~TierQualifies(last) => last = "L3"
       /\ ~LastCall.cascade =>
            /\ \A i \in 1..(Len(st) - 1) : ~TierQualifies(st[i])
            /\ \A r \in Range(resp.body.results) : r.tier = last
            /\ TierQualifies(last) <=> resp.body.results # <<>>

\* Cascading disabled, start at L1 whose searchable row does not qualify:
\* the search went on to L2, returned its rows and left a qualifying L3 row
\* unsearched.
C18_Witness ==
  /\ resp.op = "search_tiered"
  /\ ~LastCall.cascade
  /\ LastCall.start_tier = "L1"
  /\ search_candidates(kb, "L1") # {}
  /\ resp.body.searched_tiers = <<"L1", "L2">>
  /\ resp.body.results # <<>>
  /\ TierQualifies("L3")

\* Score the last call's query gives row id under the configured weights.
ConfiguredScore(id) ==
  LastCall.query[id][1] * settings.semantic_weight
    + LastCall.query[id][2] * settings.keyword_weight

\* Number of qualified results tier t contributes: its searchable rows at
\* or above the threshold, at most the result limit of one tier's query.
QualifiedCount(t) ==
  LET n == Cardinality({id \in DOMAIN kb :
                          /\ kb[id].tier = t /\ kb[id].is_active /\ kb[id].embedding # None
                          /\ ConfiguredScore(id) >= LastCall.min_score_threshold})
  IN IF n < settings.top_k_results THEN n ELSE settings.top_k_results

RECURSIVE QualifiedTotal(_)
QualifiedTotal(tiers) ==
  IF tiers = <<>> THEN 0 ELSE QualifiedCount(Head(tiers)) + QualifiedTotal(Tail(tiers))

\* C19: every result returned by the cascade search has a hybrid score at
\* or above the acceptance threshold, and total_found is the number of
\* qualified results accumulated over the searched tiers before the
\* truncation, hence at least the number of returned results.
C19_ResultsQualifiedAndCounted ==
  resp.op = "search_tiered" =>
    /\ \A r \in Range(resp.body.results) :
         /\ r.hybrid_score = ConfiguredScore(r.id)
         /\ r.hybrid_score >= LastCall.min_score_threshold
    /\ resp.body.total_found = QualifiedTotal(resp.body.searched_tiers)
    /\ resp.body.total_found >= Len(resp.body.results)

\* Three qualified results over two tiers, cut to a result limit of two.
C19_Witness ==
  /\ resp.op = "search_tiered"
  /\ resp.body.total_found = 3
  /\ Len(resp.body.results) = 2
  /\ Len(resp.body.searched_tiers) >= 2
  /\ \E id \in DOMAIN kb : ConfiguredScore(id) = LastCall.min_score_threshold

\* The rows of the last response of either search.
ReturnedRows == IF resp.op = "hybrid_search" THEN resp.body ELSE resp.body.results

\* Rows the ranker may rank for the tier argument of the last call.
Searchable(tier) ==
  {id \in DOMAIN kb :
     /\ kb[id].is_active /\ kb[id].embedding # None
     /\ tier # NoTier => kb[id].tier = tier}

\* C20: an entry that is inactive or has no embedding is never returned by
\* the ranker or by the cascade search, for any query, tier and weights; it
\* is left out of the candidates rather than ranked with a score of 0, so
\* it takes no place of the result limit either.
C20_InactiveOrUnembeddedNeverReturned ==
  /\ resp.op \in {"hybrid_search", "search_tiered"} =>
       \A r \in Range(ReturnedRows) :
         kb[r.id].is_active /\ kb[r.id].embedding # None
  /\ resp.op = "hybrid_search" =>
       LET n == Cardinality(Searchable(LastCall.tier))
           k == PyOr(LastCall.top_k, settings.top_k_results)
       IN /\ Len(resp.body) = IF n < k THEN n ELSE k
          /\ \A i, j \in 1..Len(resp.body) : i # j => resp.body[i].id # resp.body[j].id

\* A ranking over all tiers that returned the two searchable rows although
\* the third row, inactive or without embedding, has the best scores of the
\* query.
C20_Witness ==
  /\ resp.op = "hybrid_search"
  /\ LastCall.tier = NoTier
  /\ Len(resp.body) = NumSearchEntries - 1
  /\ \E id \in DOMAIN kb :
       /\ ~kb[id].is_active \/ kb[id].embedding = None
       /\ \A r \in Range(resp.body) :
            r.semantic_score < LastCall.query[id][1] /\ r.id # id

\* The searchable rows of tier t that the last call's query scores at or
\* above the threshold of that call.
QualifiedIds(t) ==
  {id \in DOMAIN kb :
     /\ kb[id].tier = t /\ kb[id].is_active /\ kb[id].embedding # None
     /\ ConfiguredScore(id) >= LastCall.min_score_threshold}

\* Tier t has a qualified row scored at or above the stop-early score.
BestStops(t) == \E id \in QualifiedIds(t) : ConfiguredScore(id) >= stop_cascade_score

\* C31: with cascading enabled, after a tier yields qualified results the
\* search stops if and only if that tier's best qualified hybrid score is
\* >= 0.7 (or no tier is left); the decision looks at the current tier's
\* results only, so a tier whose best qualified score is in [threshold, 0.7)
\* adds its results and the search continues to the next tier.
C31_CascadeStopsOnTierBestScore ==
  (resp.op = "search_tiered" /\ LastCall.cascade) =>
    LET st == resp.body.searched_tiers
    IN \A i \in 1..Len(st) :
         QualifiedIds(st[i]) # {} =>
           /\ (i = Len(st)) <=> (BestStops(st[i]) \/ st[i] = "L3")
           /\ Len(resp.body.results) < settings.top_k_results =>
                \A id \in QualifiedIds(st[i]) :
                  \E r \in Range(resp.body.results) : r.id = id

\* A cascading search from L1: L1's best qualified score is below 0.7, so
\* its row was added and L2 was searched; L2's best score stopped the
\* search before L3, which has a qualifying row too.
C31_Witness ==
  /\ resp.op = "search_tiered"
  /\ LastCall.cascade
  /\ resp.body.searched_tiers = <<"L1", "L2">>
  /\ QualifiedIds("L1") # {} /\ ~BestStops("L1")
  /\ BestStops("L2")
  /\ QualifiedIds("L3") # {}
  /\ \E r1, r2 \in Range(resp.body.results) : r1.tier = "L1" /\ r2.tier = "L2"

\* Row a comes before row b in the sorted accumulation: a higher score, or
\* an equal score and an earlier searched tier or the same tier.
SortedBefore(a, b) ==
  \/ a.hybrid_score > b.hybrid_score
  \/ a.hybrid_score = b.hybrid_score /\ TierNum(a.tier) <= TierNum(b.tier)

\* C32: the results of the cascade search are the accumulated qualified
\* results sorted by hybrid score descending with a stable sort (of two
\* results of equal score the one of the earlier searched tier comes
\* first), cut to the configured result limit, which the returned list
\* never exceeds.
C32_ResultsStablySortedAndCut ==
  resp.op = "search_tiered" =>
    LET results == resp.body.results
        limit == settings.top_k_results
    IN /\ Len(results) <= limit
       /\ Len(results) =
            IF resp.body.total_found < limit THEN resp.body.total_found ELSE limit
       /\ \A i, j \in 1..Len(results) :
            i < j => results[i].id # results[j].id /\ SortedBefore(results[i], results[j])
       /\ \A t \in Range(resp.body.searched_tiers) :
            \A id \in QualifiedIds(t) :
              (\A r \in Range(results) : r.id # id) =>
                \A r \in Range(results) :
                  SortedBefore(r, [hybrid_score |-> ConfiguredScore(id), tier |-> t])

\* Three accumulated results cut to two, two of them of equal score: the
\* one of L1 is returned before the one of L2.
C32_Witness ==
  /\ resp.op = "search_tiered"
  /\ resp.body.total_found = 3
  /\ Len(resp.body.results) = 2
  /\ \E i, j \in 1..Len(resp.body.results) :
       /\ i < j
       /\ resp.body.results[i].hybrid_score = resp.body.results[j].hybrid_score
       /\ resp.body.results[i].tier = "L1" /\ resp.body.results[j].tier = "L2"

-----------------------------------------------------------------------------
(* Promotion of inactive entries, queries, repeated records *)

\* C21: no promotion operation, automatic sweep or forced promotion,
\* changes the tier of an entry whose is_active is false or appends a
\* PromotionRecord for it.
C21_InactiveEntriesNeverPromoted ==
  [][\A id \in KbIds :
       ~kb[id].is_active =>
         /\ kb'[id].tier = kb[id].tier
         /\ \A j \in 1..Len(NewRecords) : NewRecords[j].knowledge_id # id]_vars

QueryOps == {"get_promotion_candidates", "get_promotion_history"}

\* list holds, once each and in non-increasing usage_count order, the
\* active entries of K in from_tier whose usage_count is at least 0.7 times
\* the threshold.
ListsCandidates(list, K, from_tier, usage_threshold) ==
  /\ \A i, j \in 1..Len(list) :
       i < j => list[i].id # list[j].id /\ list[i].usage_count >= list[j].usage_count
  /\ \A i \in 1..Len(list) : list[i].usage_count = K[list[i].id].usage_count
  /\ {list[i].id : i \in 1..Len(list)} =
       {id \in KbIds : /\ K[id].is_active
                       /\ K[id].tier = from_tier
                       /\ 10 * K[id].usage_count >= 7 * usage_threshold}

\* C27: the candidates query and the history query are read-only: neither
\* changes an entry's tier, usage_count, success_rate, avg_feedback_score
\* or is_active, nor the promotion records; the candidates query lists
\* exactly the active source-tier entries with usage_count >= 0.7 *
\* threshold, in non-increasing usage_count order.
C27_QueriesReadOnlyCandidatesExact ==
  [][resp'.op \in QueryOps =>
       /\ kb' = kb
       /\ history' = history
       /\ resp'.op = "get_promotion_candidates" =>
            /\ ListsCandidates(resp'.body.L3_to_L2, kb, "L3", l3_to_l2_threshold)
            /\ ListsCandidates(resp'.body.L2_to_L1, kb, "L2", l2_to_l1_threshold)]_vars

\* The candidates query answered with two L3 entries while records exist.
C27_Witness ==
  /\ resp.op = "get_promotion_candidates"
  /\ Len(resp.body.L3_to_L2) = 2
  /\ resp.body.L3_to_L2[1].usage_count > resp.body.L3_to_L2[2].usage_count
  /\ history # <<>>

\* The records of the automatic path for a transition of entry id.
AutoRecords(H, id, from_tier, to_tier) ==
  {i \in existing_promotion(H, id, from_tier, to_tier) : IsAuto(H[i])}

\* C28: the sweep skips a qualifying candidate only when a record for
\* exactly its (entry, fromTier, toTier) triple was written by the
\* automatic path; a record of a forced promotion for the same triple does
\* not keep a sweep that completes from promoting an entry that is back in
\* the source tier and meets the thresholds.
C28_OnlyAutoRecordsBlockSweep ==
  [][(resp'.op = "run_auto_promotion" /\ resp'.status = 200) =>
       \A id \in KbIds :
         ( /\ IsEligible(kb[id], "L3", l3_to_l2_threshold)
           /\ AutoRecords(history, id, "L3", "L2") = {} )
         => /\ Listed(resp', id, "L3", "L2")
            /\ TierNum(kb'[id].tier) < TierNum("L3")]_vars

\* The transitions of the items of list that are about entry id, in order.
RECURSIVE TransitionsOf(_, _)
TransitionsOf(list, id) ==
  IF list = <<>> THEN <<>>
  ELSE (IF Head(list).id = id
        THEN << <<Head(list).from_tier, Head(list).to_tier>> >> ELSE <<>>)
       \o TransitionsOf(Tail(list), id)

\* The transitions of the appended records that are about entry id, in order.
RECURSIVE RecordedTransitions(_, _)
RecordedTransitions(records, id) ==
  IF records = <<>> THEN <<>>
  ELSE (IF Head(records).knowledge_id = id
        THEN << <<Head(records).from_tier, Head(records).to_tier>> >> ELSE <<>>)
       \o RecordedTransitions(Tail(records), id)

\* The step ran a sweep: POST /promotions/run, or a resolution.
SweepStep ==
  \/ resp'.op = "run_auto_promotion"
  \/ resp'.op = "resolve_ticket" /\ resolutions' # resolutions

\* C29: an active L3 entry without prior records whose usage_count has
\* reached the L2 -> L1 threshold and whose avg_feedback_score the minimum
\* is moved L3 -> L2 and then L2 -> L1 by one sweep call: it ends in L1,
\* two records are appended for it, and the returned list holds it twice,
\* the L3 -> L2 item before the L2 -> L1 item.
C29_OneSweepPromotesTwice ==
  [][SweepStep =>
       \A id \in KbIds :
         ( /\ kb[id].tier = "L3"
           /\ IsEligible([kb'[id] EXCEPT !.tier = "L3"], "L3", l2_to_l1_threshold)
           /\ \A i \in 1..Len(history) : history[i].knowledge_id # id )
         => /\ kb'[id].tier = "L1"
            /\ RecordedTransitions(NewRecords, id) = << <<"L3", "L2">>, <<"L2", "L1">> >>
            /\ resp'.status = 200
            /\ TransitionsOf(resp'.body, id) = << <<"L3", "L2">>, <<"L2", "L1">> >>]_vars

\* C30: the sweep completes and returns a promotion list in every
\* reachable state, those included where forced promotions have left two
\* or more records for one (entry, fromTier, toTier) while the entry is an
\* eligible candidate of the source tier again; that entry is skipped and
\* no error is raised.
C30_SweepCompletesWithRepeatedRecords ==
  [][SweepStep =>
       /\ resp'.status = 200
       /\ \A id \in KbIds, p \in {1, 2} :
            ( /\ kb[id].tier = PassFrom(p)
              /\ Cardinality(existing_promotion(history, id, PassFrom(p), PassTo(p))) >= 2 )
            => ~Listed(resp', id, PassFrom(p), PassTo(p))]_vars

\* Entry e is active, in the source tier of pass p, and meets both
\* thresholds of that pass.
MeetsThresholds(e, p) ==
  /\ e.is_active
  /\ e.tier = PassFrom(p)
  /\ e.usage_count >= PassThreshold(p)
  /\ RatGE(e.avg_feedback_score, min_feedback_score)

UsageStatistics(e) == <<e.usage_count, e.success_rate, e.avg_feedback_score>>

\* The step kept every record and changed tiers only of entries for which
\* it appended a record; no entry was added, removed or (de)activated.
OnlyRecordedTierChanges ==
  /\ DOMAIN kb' = DOMAIN kb
  /\ Len(history') >= Len(history)
  /\ SubSeq(history', 1, Len(history)) = history
  /\ \A id \in KbIds :
       /\ kb'[id].is_active = kb[id].is_active
       /\ kb'[id].tier # kb[id].tier =>
            \E j \in 1..Len(NewRecords) :
              NewRecords[j].knowledge_id = id /\ NewRecords[j].to_tier = kb'[id].tier

\* C35: the sweep and the forced promotion change only tiers and append
\* records, leaving every entry's usage_count, success_rate,
\* avg_feedback_score and is_active as they are; record_usage changes only
\* the three usage statistics of the entry it names, leaving every tier
\* (but for the sweep that follows it in resolve_ticket), every other
\* entry's statistics and the records as they are.
C35_FrameOfMutatingOperations ==
  [][/\ resp'.op \in {"run_auto_promotion", "manual_promote"} =>
          /\ OnlyRecordedTierChanges
          /\ \A id \in KbIds : UsageStatistics(kb'[id]) = UsageStatistics(kb[id])
     /\ resp'.op = "resolve_ticket" =>
          \A t \in TicketIds, k \in KbIds \cup {MissingKb, None},
             f \in FeedbackScores \cup {None} :
            ResolveTicket(t, k, f) =>
              /\ OnlyRecordedTierChanges
              /\ \A id \in KbIds \ {k} : UsageStatistics(kb'[id]) = UsageStatistics(kb[id])
              /\ k \in KbIds =>
                   UsageStatistics(kb'[k]) # UsageStatistics(kb[k])]_vars

\* A forced promotion has moved an entry that has usage on record to
\* another tier.
C35_Witness ==
  /\ resp.op = "manual_promote" /\ resp.status = 200
  /\ resp.body[1].from_tier # resp.body[1].to_tier
  /\ kb[resp.body[1].id].tier = resp.body[1].to_tier
  /\ kb[resp.body[1].id].usage_count > 0
  /\ kb[resp.body[1].id].usage_count = resp.body[1].usage_count

\* C39: resolve_ticket does not look at the ticket's status: every call on
\* an existing ticket, resolved already or not, leaves it resolved with one
\* more resolution on record, raises the usage_count of the existing entry
\* it names by exactly one, and runs the sweep after that update (when the
\* sweep completes its promotions are the records appended and no entry is
\* left qualifying without a record), so k calls on one ticket raise the
\* usage_count by k; a call for a ticket id that does not exist answers
\* 404 and changes nothing.
C39_ResolveHasNoStatusGuard ==
  [][resp'.op = "resolve_ticket" =>
       \A t \in TicketIds \cup {MissingTicket}, k \in KbIds \cup {MissingKb, None},
          f \in FeedbackScores \cup {None} :
         ResolveTicket(t, k, f) =>
           IF t \in TicketIds
           THEN /\ tickets'[t] = "resolved"
                /\ resolutions'[t] = resolutions[t] + 1
                /\ resp'.status # 404
                /\ k \in KbIds => kb'[k].usage_count = kb[k].usage_count + 1
                /\ resp'.status = 200 =>
                     /\ Len(resp'.body) = Len(NewRecords)
                     /\ \A id \in KbIds, p \in {1, 2} :
                          MeetsThresholds(kb'[id], p) =>
                            existing_promotion(history, id, PassFrom(p), PassTo(p)) # {}
           ELSE /\ resp'.status = 404
                /\ kb' = kb /\ history' = history
                /\ tickets' = tickets /\ resolutions' = resolutions]_vars

\* The one ticket has been resolved twice, both times naming the entry that
\* started one usage below the L3 -> L2 threshold: its usage_count is two
\* higher, and the sweep of the first call has promoted it.
C39_Witness ==
  /\ resp.op = "resolve_ticket" /\ resp.status = 200
  /\ tickets[1] = "resolved" /\ resolutions[1] = 2
  /\ kb[NumEntries].usage_count = l3_to_l2_threshold + 1
  /\ \E i \in 1..Len(history) : history[i].knowledge_id = NumEntries

-----------------------------------------------------------------------------
(* Hybrid ranker *)

\* Row a is ranked before row b: higher score, or equal score and lower id.
RankedBefore(a, b) ==
  \/ a.hybrid_score > b.hybrid_score
  \/ a.hybrid_score = b.hybrid_score /\ a.id < b.id

\* C22: the ranker returns candidates in descending hybrid score order and
\* breaks ties between equal scores by entry id ascending, so that the
\* returned list and its top-limit cut are determined by the data and the
\* query.
C22_RankerTiesByIdAscending ==
  resp.op = "hybrid_search" =>
    /\ \A i, j \in 1..Len(resp.body) :
         i < j => RankedBefore(resp.body[i], resp.body[j])
    /\ \A id \in Searchable(LastCall.tier) :
         (\A r \in Range(resp.body) : r.id # id) =>
           \A r \in Range(resp.body) :
             RankedBefore(r, SearchRow(kb, LastCall.query, id,
                                       PyOr(LastCall.semantic_weight, settings.semantic_weight),
                                       PyOr(LastCall.keyword_weight, settings.keyword_weight)))

\* An argument's value when the default applies only if it was not supplied.
Supplied(x, default) == IF x = Unset THEN default ELSE x

\* C23: every returned row's hybrid score is semantic_score *
\* semantic_weight + keyword_score * keyword_weight with the weights the
\* caller passed, a weight of exactly 0 included; the configured defaults
\* apply only to a weight that was not supplied, and the default result
\* limit only when no limit was supplied.
C23_WeightsAndLimitAsPassed ==
  resp.op = "hybrid_search" =>
    LET sw == Supplied(LastCall.semantic_weight, settings.semantic_weight)
        kw == Supplied(LastCall.keyword_weight, settings.keyword_weight)
        k == Supplied(LastCall.top_k, settings.top_k_results)
        n == Cardinality(Searchable(LastCall.tier))
    IN /\ \A r \in Range(resp.body) :
            /\ r.semantic_score = LastCall.query[r.id][1]
            /\ r.keyword_score = LastCall.query[r.id][2]
            /\ r.hybrid_score = r.semantic_score * sw + r.keyword_score * kw
       /\ Len(resp.body) = IF n < k THEN n ELSE k

-----------------------------------------------------------------------------
(* Urgency scorer *)

\* The sum of the five factors of a result, in hundredths.
FactorSum(result) ==
  result.factors.sentiment + result.factors.keywords + result.factors.category
    + result.factors.user_tier + result.factors.text_indicators

\* n is an integer nearest to raw / 100.
NearestInteger(n, raw) == 100 * n - raw <= 50 /\ raw - 100 * n <= 50

Clamp(n, lo, hi) == IF n < lo THEN lo ELSE IF n > hi THEN hi ELSE n

\* C24: for every title, description, optional category, optional user
\* tier and every sentiment score in [-1, 1], the score that calculate
\* returns is an integer in 1..10, equal to the rounded sum of the five
\* factors clamped to that range.
C24_ScoreIsClampedRoundedSum ==
  resp.op = "calculate" =>
    /\ LastCall.service.kind = "stub" =>
         resp.body.sentiment_result.score = LastCall.service.score
    /\ resp.body.sentiment_result.score \in -100..100
    /\ resp.body.score \in 1..10
    /\ \E n \in 0..12 :
         /\ NearestInteger(n, FactorSum(resp.body))
         /\ resp.body.score = Clamp(n, 1, 10)

\* A call whose factors sum to 11.0 and whose score is 10.
C24_Witness ==
  /\ resp.op = "calculate"
  /\ FactorSum(resp.body) = 1100
  /\ resp.body.score = 10

\* The level and the tier of the table, written out per score.
LevelOfScore(score) ==
  CASE score \in {8, 9, 10} -> "critical"
    [] score \in {6, 7} -> "high"
    [] score \in {4, 5} -> "medium"
    [] score \in {1, 2, 3} -> "low"

TierOfScore(score) ==
  CASE score \in {8, 9, 10} -> "L3"
    [] score \in {5, 6, 7} -> "L2"
    [] score \in {1, 2, 3, 4} -> "L1"

\* C25: for every score in 1..10 the level is CRITICAL from 8, HIGH for 6
\* and 7, MEDIUM for 4 and 5, LOW below, and the tier is L3 from 8, L2 for
\* 5 to 7, L1 below; a strictly higher score never yields a lower tier, and
\* the level is CRITICAL exactly when the tier is L3.
C25_LevelAndTierFollowScore ==
  resp.op = "calculate" =>
    /\ resp.body.level = LevelOfScore(resp.body.score)
    /\ resp.body.tier = TierOfScore(resp.body.score)
    /\ (resp.body.level = "critical") <=> (resp.body.tier = "L3")
    /\ \A score \in 1..10 :
         /\ score > resp.body.score =>
              TierNum(get_tier_assignment(score)) >= TierNum(resp.body.tier)
         /\ score < resp.body.score =>
              TierNum(get_tier_assignment(score)) <= TierNum(resp.body.tier)

\* A call scored 5: level MEDIUM, tier L2.
C25_Witness ==
  /\ resp.op = "calculate"
  /\ resp.body.score = 5
  /\ resp.body.level = "medium"
  /\ resp.body.tier = "L2"

\* The call had an empty or whitespace-only title and description, no
\* category and no user tier, and the calculator uses the analyzer.
BlankCall(call) ==
  /\ call.service.kind = "analyzer"
  /\ call.title \subseteq {" "}
  /\ call.description \subseteq {" "}
  /\ call.category = "None"
  /\ call.user_tier = "None"

\* C26: for a title and description that are both empty or whitespace-only,
\* with no category and no user tier, calculate returns a result: the
\* sentiment is the neutral default (label neutral, score 0, confidence 0)
\* obtained without a call of the pipeline, and the result is score 2,
\* level LOW, tier L1.
C26_BlankTextScoresTwo ==
  (resp.op = "calculate" /\ BlankCall(LastCall)) =>
    /\ resp.status = 200
    /\ resp.body.sentiment_result.label = "neutral"
    /\ resp.body.sentiment_result.score = 0
    /\ resp.body.sentiment_result.confidence = 0
    /\ resp.body.sentiment_result.pipeline_calls = 0
    /\ resp.body.score = 2
    /\ resp.body.level = "low"
    /\ resp.body.tier = "L1"

\* A whitespace-only title scored by an analyzer whose pipeline would have
\* answered "1 star".
C26_Witness ==
  /\ resp.op = "calculate"
  /\ BlankCall(LastCall)
  /\ LastCall.title = {" "}
  /\ LastCall.service.raw_label = "1 star"
  /\ resp.body.score = 2

\* The even one of the two integers a sum halfway between them lies between.
EvenNeighbour(raw) ==
  LET lower == (raw - 50) \div 100
  IN IF lower % 2 = 0 THEN lower ELSE lower + 1

\* C36: the score is round-half-to-even of the sum of the five factors as
\* stored in the breakdown (each a number of two decimals): a sum halfway
\* between two integers gives the even neighbour; a sum of 4.5 gives score
\* 4 and tier L1, a sum of 7.5 gives score 8, tier L3 and level CRITICAL.
C36_TiesRoundToEven ==
  resp.op = "calculate" =>
    LET raw == FactorSum(resp.body)
    IN /\ raw % 100 = 50 => resp.body.score = Clamp(EvenNeighbour(raw), 1, 10)
       /\ raw = 450 => resp.body.score = 4 /\ resp.body.tier = "L1"
       /\ raw = 750 =>
            resp.body.score = 8 /\ resp.body.tier = "L3" /\ resp.body.level = "critical"
       /\ raw = 250 => resp.body.score = 2
       /\ raw = 550 => resp.body.score = 6

\* A call whose factors sum to 4.5, scored 4 and assigned to L1.
C36_Witness ==
  /\ resp.op = "calculate"
  /\ FactorSum(resp.body) = 450
  /\ resp.body.score = 4
  /\ resp.body.tier = "L1"


\* The configured position of the first keyword of a list occurring in the
\* text; 0 when none does.
FirstHit(keywords, text) ==
  IF \E i \in 1..Len(keywords) : KeywordIn(keywords[i], text)
  THEN CHOOSE i \in 1..Len(keywords) :
         /\ KeywordIn(keywords[i], text)
         /\ \A j \in 1..(i - 1) : ~KeywordIn(keywords[j], text)
  ELSE 0

\* The combined text of the call a response answers.
TextOfLastCall ==
  LET call == served.calls[Len(served.calls)]
  IN combined_text(call.title, call.description)

\* C37: the keyword factor is 4.0 when a critical keyword occurs in the
\* combined text, whatever high-urgency keywords occur beside it, otherwise
\* 2.5 when a high-urgency keyword occurs, otherwise 0; at most one matched
\* keyword is recorded: the first keyword, in configured order, of the list
\* that decided the factor.
C37_KeywordFactorOrderedScan ==
  resp.op = "calculate" =>
    LET critical == FirstHit(critical_keywords_list, TextOfLastCall)
        high == FirstHit(high_urgency_keywords_list, TextOfLastCall)
        recorded == resp.body.explanation.keywords
    IN /\ Len(recorded) <= 1
       /\ critical > 0 =>
            /\ resp.body.factors.keywords = 400
            /\ recorded = <<critical_keywords_list[critical]>>
       /\ critical = 0 /\ high > 0 =>
            /\ resp.body.factors.keywords = 250
            /\ recorded = <<high_urgency_keywords_list[high]>>
       /\ critical = 0 /\ high = 0 =>
            /\ resp.body.factors.keywords = 0
            /\ recorded = <<>>

\* A text with two critical and two high-urgency keywords: factor 4.0 and
\* "down", the earlier of the two critical keywords, recorded alone.
C37_Witness ==
  /\ resp.op = "calculate"
  /\ {"failed", "urgent"} \subseteq served.calls[1].title
  /\ {"down", "emergency"} \subseteq served.calls[1].description
  /\ resp.body.factors.keywords = 400
  /\ resp.body.explanation.keywords = <<"down">>


\* The detection table's categories in their fixed order.
TableOrder ==
  <<"payment", "security", "outage", "authentication", "email", "network",
    "hardware", "database", "performance">>

\* The keyword list the detection table gives a category.
KeywordsOf(category) ==
  LET row == CHOOSE i \in 1..Len(category_keywords) : category_keywords[i][1] = category
  IN category_keywords[row][2]

\* A category of the table has a hit in the text.
HasHit(category, text) == \E keyword \in KeywordsOf(category) : KeywordIn(keyword, text)

\* The first category in table order with a hit, "general" when none hits.
FirstCategoryWithHit(text) ==
  IF \E i \in 1..Len(TableOrder) : HasHit(TableOrder[i], text)
  THEN TableOrder[CHOOSE i \in 1..Len(TableOrder) :
                    /\ HasHit(TableOrder[i], text)
                    /\ \A j \in 1..(i - 1) : ~HasHit(TableOrder[j], text)]
  ELSE "general"

\* The categories of the weight table.
WeightedCategories ==
  {"payment", "security", "outage", "authentication", "email", "network",
   "hardware", "software", "database", "performance", "general"}

\* (baseWeight / 10) * 2 in hundredths, base weight 3 outside the table.
CategoryFactorOf(category) ==
  IF category \in WeightedCategories THEN 20 * CATEGORY_URGENCY(category) ELSE 60

\* The response is the one calculate gives when it resolves this category.
ResolvedAs(category) ==
  /\ resp.body.factors.category = CategoryFactorOf(category)
  /\ resp.body.explanation.category =
       IF category # "general" THEN <<category>> ELSE <<>>

\* C38: a supplied category that is not the empty string takes precedence
\* over detection; with no category, or an empty one, the category is the
\* first of the table order payment, security, outage, authentication,
\* email, network, hardware, database, performance whose keyword list has a
\* hit in the text, and "general" when none hits; the category factor is
\* (baseWeight / 10) * 2 with base weight 3 for a category outside the
\* weight table.
C38_CategoryResolutionOrder ==
  resp.op = "calculate" =>
    LET call == served.calls[Len(served.calls)]
    IN IF call.category \notin {"None", ""}
       THEN ResolvedAs(call.category)
       ELSE ResolvedAs(FirstCategoryWithHit(TextOfLastCall))

\* The statement with "always": every supplied category, the empty string
\* included, is the resolved one.
C38_SuppliedCategoryAlwaysPrecedes ==
  resp.op = "calculate" =>
    LET call == served.calls[Len(served.calls)]
    IN IF call.category # "None"
       THEN ResolvedAs(call.category)
       ELSE ResolvedAs(FirstCategoryWithHit(TextOfLastCall))

\* A ticket with category "printing" whose text has the outage keyword
\* "down": the category stays "printing", with factor 0.6 from base weight 3.
C38_Witness ==
  /\ resp.op = "calculate"
  /\ served.calls[1].category = "printing"
  /\ "down" \in served.calls[1].description
  /\ resp.body.factors.category = 60
  /\ resp.body.explanation.category = <<"printing">>

=============================================================================
